---- MODULE Spec2Model ----
(***************************************************************************)
(* A model of MiniRDS: the Windows GUI front end (src/src/minirds_gui.c),  *)
(* its engine thread, and the control pipe reader (control_pipe.c, kept as *)
(* src/unnamed/part_000).                                                  *)
(*                                                                         *)
(* Spec      the GUI thread (message loop handlers) and the engine threads *)
(* SpecPipe  poll_control_pipe on the Windows named pipe and on the FIFO   *)
(***************************************************************************)
EXTENDS Integers, Sequences, FiniteSets, TLC

VARIABLES
    \* ---- minirds_gui.c: globals
    g_engine_running,   \* volatile LONG, 0 or 1
    g_stop_engine,      \* volatile LONG, 0 or 1
    g_engine_thread,    \* HANDLE: 0 is NULL, otherwise the id of the thread
    active,             \* g_<f>_file.active && g_<f>_file.path[0]
    changed,            \* the file's write time differs from g_<f>_file.last_write
    applied,            \* the encoder holds what the file holds now
    edited,             \* the settings whose value in the window the encoder lacks
    \* ---- the window
    box,                \* the "Watch" box of file f is ticked and a path is entered
    startEnabled,       \* IDC_START_BTN is enabled
    stopEnabled,        \* IDC_STOP_BTN is enabled
    status,             \* text of IDC_STATUS_LABEL
    posted,             \* WM_APP + 1 messages in the window's queue
    guiPc,              \* where the GUI thread is: "idle" is the message loop
    \* ---- execute_command_file
    cmdFile,            \* the bytes of the file named in IDC_FILE_EDIT
    fp,                 \* what the open stream fp has not yet returned
    execHanded,         \* the lines process_ascii_cmd got in this execution
    count,              \* the local count
    \* ---- engine threads
    pc,                 \* position of each engine thread
    trace,              \* the library calls of each thread that acquire or release
    sawStop,            \* the loop condition of the thread has read g_stop_engine = 1
    playsAfterStop,     \* ao_play calls the thread began while g_stop_engine was 1
    playsAfterSeen,     \* ao_play calls the thread began after sawStop
    playFailed,         \* an ao_play call of the thread returned 0
    playsAfterFail,     \* ao_play calls the thread began after playFailed
    \* ---- control_pipe.c
    platform,           \* "win" (named pipe) or "posix" (FIFO): the #ifdef _WIN32
    pollPc,             \* where poll_control_pipe is: "idle" is outside of it
    elapsed,            \* time units the poll_control_pipe call in progress has waited
    hEvent,             \* the manual-reset event of olap is signalled
    armed,              \* a ConnectNamedPipe is outstanding on hPipe
    opens,              \* calls of open_control_pipe so far
    client,             \* the writing end: "none", "open" or "closed"
    inbuf,              \* bytes written to the pipe and not yet read
    pipe_buf,           \* the static pipe_buf, as the C string it holds
    payload,            \* the bytes the read of the current poll returned
    lastRead,           \* how the current (or last) poll_control_pipe call went
    handed,             \* the strings process_ascii_cmd got in that call
    eofSeen,            \* an earlier read hit the end of file or failed
    before,             \* the byte of the stream in front of payload ("\n" at its start)
    \* ---- minirds_gui.c: process_rtp_file and the encoder state it uses
    rtpText,            \* the bytes of the RT+ file
    rt,                 \* the encoder's RadioText: RT_LENGTH glyphs, space-padded
    rtplus_tags,        \* what set_rds_rtplus_tags got last: type, start, len, twice
    rtplus_flags,       \* what set_rds_rtplus_flags got last
    lastRtp,            \* how the last process_rtp_file call went
    \* ---- minirds_gui.c: ps_chunk_text and g_ps_scroll
    psText,             \* the text handed to ps_chunk_text
    chunks,             \* g_ps_scroll.chunks[0 .. num_chunks - 1]
    psPc,               \* "done" once ps_chunk_text has returned
    \* ---- minirds_gui.c: ps_scroll_tick and process_ps_file
    now,                \* GetTickCount(), in units of the file watch timer
    last_advance_tick,  \* g_ps_scroll.last_advance_tick
    current_chunk,      \* g_ps_scroll.current_chunk
    ps,                 \* the encoder's PS: what set_rds_ps got last
    psHanded,           \* the chunk indices set_rds_ps got since the last load began
    advancedAt,         \* the times of the advances since the last load began
    loadPc,             \* where the engine thread is in process_ps_file
    \* ---- the encoder's Programme Type and what the GUI was given for it
    pty,                \* the PTY in effect
    ptyGiven,           \* the number the last PT file or PTY field held
    ptyFrom,            \* "pt_file", "pt_name" or "apply": who called set_rds_pty last
    \* ---- minirds_gui.c: float2char2channel
    frames,             \* the argument frames
    inbuf2,             \* inbuf: two floats a frame, each in units of 1/32767
    outbuf,             \* outbuf: the byte at each offset, -1 where none was written
    packPc,             \* "done" once float2char2channel has returned
    \* ---- getopt.c
    argv,               \* argv[0 .. argc - 1], each element a string
    optstring,          \* the optstring of the caller
    useLong,            \* the caller calls getopt_long (otherwise getopt)
    optind,             \* int optind
    optwhere,           \* static int optwhere
    optarg,             \* char *optarg: <<>> is NULL, otherwise <<the string>>
    optopt,             \* int optopt, as a character
    result,             \* what the last call returned: a character, "0" or "-1"
    longindex,          \* *longindex
    flagged             \* what was stored through a longopts[i].flag: <<>> or <<val>>

cmdVars == <<cmdFile, fp, execHanded, count>>
guiVars == <<g_engine_running, g_stop_engine, g_engine_thread, active, changed,
             applied, edited,
             box, startEnabled, stopEnabled, status, posted, guiPc, cmdVars>>
engVars == <<pc, trace, sawStop, playsAfterStop, playsAfterSeen, playFailed,
             playsAfterFail>>
pipeVars == <<platform, pollPc, elapsed, hEvent, armed, opens, client, inbuf,
              pipe_buf, payload, lastRead, handed, eofSeen, before>>
rtpVars == <<rtpText, rt, rtplus_tags, rtplus_flags, lastRtp>>
scrollVars == <<now, last_advance_tick, current_chunk, ps, psHanded, advancedAt,
                loadPc>>
psVars == <<psText, chunks, psPc, scrollVars>>
ptyVars == <<pty, ptyGiven, ptyFrom>>
packVars == <<frames, inbuf2, outbuf, packPc>>
optVars == <<argv, optstring, useLong, optind, optwhere, optarg, optopt, result,
             longindex, flagged>>
txtVars == <<rtpVars, psVars, ptyVars, packVars, optVars, optVars>>
vars == <<guiVars, engVars, pipeVars, txtVars>>

\* Engine threads the model lets start_engine create (CreateThread calls that succeed).
MaxThreads == 2
\* Command lines of the command file the GUI thread executes beside the engine.
MaxCmds == 2
\* Settings the user has changed in the window and not yet applied.
MaxEdits == 2
\* The model's RT_LENGTH: the glyphs of the RadioText.
RtLength == 3
\* The model's CMD_BUFFER_SIZE: a command holds at most CmdBufferSize - 1 bytes.
CmdBufferSize == 3

Threads == 1..MaxThreads
NULL == 0

\* rt stands for the three watches start_engine captures with the same code
\* (g_rt_file, g_ps_file, g_rtp_file); pt is g_pt_file, which it does not capture.
Files == {"rt", "pt"}
CapturedAtStart == {"rt"}

-----------------------------------------------------------------------------
(* engine_thread_proc                                                      *)

\* Between fm_mpx_init (line 717) and the return of exit_rds_encoder (line 885).
Initialised == {"rds_init", "audio_setup", "loop_check", "get_frames", "ao_play",
                "teardown", "engine_cleanup"}

\* Inside the block that writes the encoder state at start-up (lines 721-797).
EngineWriting(t) == pc[t] = "rds_init"

\* Inside fm_rds_get_frames (line 860).
InGetFrames(t) == pc[t] = "get_frames"

StopRequestedNever == FALSE
\* while (!g_stop_engine): what the loop condition reads.
StopRequested == g_stop_engine = 1

\* Lines 708-719: the three mallocs, then fm_mpx_init and set_output_volume.
EngAlloc(t) ==
    /\ pc[t] = "start"
    /\ \E ok \in BOOLEAN :
         IF ok
         THEN /\ pc' = [pc EXCEPT ![t] = "rds_init"]
              /\ trace' = [trace EXCEPT ![t] = Append(@, "fm_mpx_init")]
         ELSE /\ pc' = [pc EXCEPT ![t] = "engine_exit"]
              /\ trace' = trace
    /\ UNCHANGED <<txtVars, pipeVars, guiVars, sawStop, playsAfterStop, playsAfterSeen, playFailed,
                   playsAfterFail>>

\* The settings of the "RDS Settings" group of the window (README, GUI Mode).
Settings == {"PI", "PS", "RT", "PTY", "PTYN", "AF", "LPS", "eRT", "TP", "TA", "MS"}

\* The settings engine_thread_proc takes from the window (lines 721-775).
SetAtInit == {"PI", "PS", "RT", "PTY", "TP", "PTYN", "AF", "TA", "MS", "LPS", "eRT"}

\* The outcomes of the read_file_text calls for the files in fs: TRUE is a read
\* that returned the text of the file (lines 353-375; NULL when fopen or malloc
\* fails or the file is larger than 65536 bytes).
ReadOutcomes(fs) == {ok \in [Files -> BOOLEAN] : \A f \in Files \ fs : ~ok[f]}

\* Lines 721-797: init_rds_encoder with the values of the window (PI, PS, RT, PTY,
\* TP, PTYN, AF), set_rds_ta/ms/lps/ert, and the active file watches processed at
\* once (last_write is read from the file).
EngRdsInit(t) ==
    /\ pc[t] = "rds_init"
    /\ pc' = [pc EXCEPT ![t] = "audio_setup"]
    /\ trace' = [trace EXCEPT ![t] = Append(@, "init_rds_encoder")]
    /\ edited' = edited \ SetAtInit
    /\ changed' = [f \in Files |-> IF active[f] THEN FALSE ELSE changed[f]]
    /\ \E ok \in ReadOutcomes({f \in Files : active[f]}) : applied' = ok
    /\ UNCHANGED <<txtVars, pipeVars, g_engine_running, g_stop_engine, g_engine_thread, active, box,
                   startEnabled, stopEnabled, status, posted, guiPc, cmdVars,
                   sawStop, playsAfterStop, playsAfterSeen, playFailed,
                   playsAfterFail>>

AudioOutcomes == {"no_driver", "open_failed", "resampler_failed", "ok"}

\* The calls of lines 799-856 for each outcome.
AudioCalls(o) ==
    CASE o = "no_driver"        -> <<"ao_initialize">>
      [] o = "open_failed"      -> <<"ao_initialize">>
      [] o = "resampler_failed" -> <<"ao_initialize", "ao_open_live">>
      [] o = "ok"               -> <<"ao_initialize", "ao_open_live", "resampler_init">>

\* Lines 799-856: ao_initialize, driver, ao_open_live, resampler_init; every
\* failure is a goto engine_cleanup.
EngAudioSetup(t) ==
    /\ pc[t] = "audio_setup"
    /\ \E o \in AudioOutcomes :
         /\ trace' = [trace EXCEPT ![t] = @ \o AudioCalls(o)]
         /\ pc' = [pc EXCEPT ![t] = IF o = "ok" THEN "loop_check" ELSE "engine_cleanup"]
    /\ UNCHANGED <<txtVars, pipeVars, guiVars, sawStop, playsAfterStop, playsAfterSeen, playFailed,
                   playsAfterFail>>

\* A loop that goes on whatever g_stop_engine holds.
EngLoopCheckIgnoringStop(t) ==
    /\ pc[t] = "loop_check"
    /\ pc' = [pc EXCEPT ![t] = "get_frames"]
    /\ UNCHANGED <<txtVars, pipeVars, guiVars, trace, sawStop, playsAfterStop, playsAfterSeen,
                   playFailed, playsAfterFail>>

\* Line 859: the loop condition.
EngLoopCheck(t) ==
    /\ pc[t] = "loop_check"
    /\ IF StopRequested
       THEN /\ pc' = [pc EXCEPT ![t] = "teardown"]
            /\ sawStop' = [sawStop EXCEPT ![t] = TRUE]
       ELSE /\ pc' = [pc EXCEPT ![t] = "get_frames"]
            /\ sawStop' = sawStop
    /\ UNCHANGED <<txtVars, pipeVars, guiVars, trace, playsAfterStop, playsAfterSeen, playFailed,
                   playsAfterFail>>

ResampleOutcomes == {"failed", "no_frames", "frames"}

\* Lines 860-870: fm_rds_get_frames returns, resample, float2char2channel, and the
\* call of ao_play begins (it blocks until the sink takes the buffer).
EngGetFrames(t) ==
    /\ pc[t] = "get_frames"
    /\ \E r \in ResampleOutcomes :
         CASE r = "failed" ->
                /\ pc' = [pc EXCEPT ![t] = "teardown"]
                /\ UNCHANGED <<playsAfterStop, playsAfterSeen, playsAfterFail>>
           [] r = "no_frames" ->
                /\ pc' = [pc EXCEPT ![t] = "loop_check"]
                /\ UNCHANGED <<playsAfterStop, playsAfterSeen, playsAfterFail>>
           [] r = "frames" ->
                /\ pc' = [pc EXCEPT ![t] = "ao_play"]
                /\ playsAfterStop' = [playsAfterStop EXCEPT
                       ![t] = IF g_stop_engine = 1 THEN @ + 1 ELSE @]
                /\ playsAfterSeen' = [playsAfterSeen EXCEPT
                       ![t] = IF sawStop[t] THEN @ + 1 ELSE @]
                /\ playsAfterFail' = [playsAfterFail EXCEPT
                       ![t] = IF playFailed[t] THEN @ + 1 ELSE @]
    /\ UNCHANGED <<txtVars, pipeVars, guiVars, trace, sawStop, playFailed>>

EngAoPlayIgnoresFailure(t) ==
    /\ pc[t] = "ao_play"
    /\ \E ok \in BOOLEAN :
         /\ pc' = [pc EXCEPT ![t] = "loop_check"]
         /\ playFailed' = [playFailed EXCEPT ![t] = @ \/ ~ok]
    /\ UNCHANGED <<txtVars, pipeVars, guiVars, trace, sawStop, playsAfterStop, playsAfterSeen,
                   playsAfterFail>>

\* Lines 870-874: ao_play returns; 0 is a failure and breaks out of the loop.
EngAoPlay(t) ==
    /\ pc[t] = "ao_play"
    /\ \E ok \in BOOLEAN :
         IF ok
         THEN /\ pc' = [pc EXCEPT ![t] = "loop_check"]
              /\ playFailed' = playFailed
         ELSE /\ pc' = [pc EXCEPT ![t] = "teardown"]
              /\ playFailed' = [playFailed EXCEPT ![t] = TRUE]
    /\ UNCHANGED <<txtVars, pipeVars, guiVars, trace, sawStop, playsAfterStop, playsAfterSeen,
                   playsAfterFail>>

TeardownCallsSinkFirst == <<"ao_close", "resampler_exit">>
\* Lines 879-880, in the order of the code.
TeardownCalls == <<"resampler_exit", "ao_close">>

\* Lines 877-880: after the loop.
EngTeardown(t) ==
    /\ pc[t] = "teardown"
    /\ pc' = [pc EXCEPT ![t] = "engine_cleanup"]
    /\ trace' = [trace EXCEPT ![t] = @ \o TeardownCalls]
    /\ UNCHANGED <<txtVars, pipeVars, guiVars, sawStop, playsAfterStop, playsAfterSeen, playFailed,
                   playsAfterFail>>

\* Lines 882-886: label engine_cleanup.
EngCleanup(t) ==
    /\ pc[t] = "engine_cleanup"
    /\ pc' = [pc EXCEPT ![t] = "engine_exit"]
    /\ trace' = [trace EXCEPT ![t] = @ \o <<"ao_shutdown", "fm_mpx_exit",
                                            "exit_rds_encoder">>]
    /\ applied' = [f \in Files |-> FALSE]
    /\ UNCHANGED <<txtVars, pipeVars, g_engine_running, g_stop_engine, g_engine_thread, active,
                   changed, box, startEnabled, stopEnabled, status, posted, guiPc,
                   cmdVars, edited, sawStop, playsAfterStop, playsAfterSeen, playFailed,
                   playsAfterFail>>

\* Lines 888-893: label engine_exit, the frees and InterlockedExchange(running, 0).
EngExit(t) ==
    /\ pc[t] = "engine_exit"
    /\ pc' = [pc EXCEPT ![t] = "post"]
    /\ g_engine_running' = 0
    /\ trace' = [trace EXCEPT ![t] = Append(@, "running_0")]
    /\ UNCHANGED <<txtVars, pipeVars, g_stop_engine, g_engine_thread, active, changed, box,
                   startEnabled, stopEnabled, status, posted, guiPc, cmdVars, applied, edited,
                   sawStop, playsAfterStop, playsAfterSeen, playFailed,
                   playsAfterFail>>

\* Lines 894-896: PostMessageA(WM_APP + 1) and the return of the thread, with
\* which its locals are gone: the model forgets what the thread did.
EngPost(t) ==
    /\ pc[t] = "post"
    /\ pc' = [pc EXCEPT ![t] = "done"]
    /\ posted' = posted + 1
    /\ trace' = [trace EXCEPT ![t] = <<>>]
    /\ sawStop' = [sawStop EXCEPT ![t] = FALSE]
    /\ playFailed' = [playFailed EXCEPT ![t] = FALSE]
    /\ playsAfterStop' = [playsAfterStop EXCEPT ![t] = 0]
    /\ playsAfterSeen' = [playsAfterSeen EXCEPT ![t] = 0]
    /\ playsAfterFail' = [playsAfterFail EXCEPT ![t] = 0]
    /\ UNCHANGED <<txtVars, pipeVars, g_engine_running, g_stop_engine, g_engine_thread, active,
                   changed, box, startEnabled, stopEnabled, status, guiPc,
                   cmdVars, applied, edited>>

-----------------------------------------------------------------------------
(* The GUI thread: WndProc runs one handler at a time; guiPc = "idle" is the *)
(* message loop. A handler that calls into the encoder or waits for the      *)
(* engine thread takes several steps, so that the engine threads run         *)
(* meanwhile.                                                               *)

\* The thread CreateThread returns next.
NextThread == CHOOSE t \in Threads : pc[t] = "unborn" /\ \A u \in 1..(t - 1) : pc[u] # "unborn"

StartEngineWithoutGuard ==
    /\ guiPc = "idle"
    /\ startEnabled
    /\ \E t \in Threads : pc[t] = "unborn"
    /\ g_engine_running' = 1
    /\ g_stop_engine' = 0
    /\ active' = [f \in Files |-> IF f \in CapturedAtStart THEN box[f] ELSE active[f]]
    /\ changed' = [f \in Files |-> IF f \in CapturedAtStart THEN TRUE ELSE changed[f]]
    /\ g_engine_thread' = NextThread
    /\ pc' = [pc EXCEPT ![NextThread] = "start"]
    /\ status' = "Running"
    /\ startEnabled' = FALSE
    /\ stopEnabled' = TRUE
    /\ UNCHANGED <<txtVars, pipeVars, box, posted, guiPc, cmdVars, applied, edited, trace, sawStop,
                   playsAfterStop, playsAfterSeen, playFailed, playsAfterFail>>

\* start_engine, lines 903-949 (IDC_START_BTN). threadOk is the outcome of
\* CreateThread.
StartEngine ==
    /\ guiPc = "idle"
    /\ startEnabled
    /\ \E t \in Threads : pc[t] = "unborn"
    /\ IF g_engine_running # 0
       THEN \* "Engine is already running."
            UNCHANGED vars
       ELSE \E threadOk \in BOOLEAN :
            /\ g_stop_engine' = 0
            /\ active' = [f \in Files |->
                            IF f \in CapturedAtStart THEN box[f] ELSE active[f]]
            /\ changed' = [f \in Files |->
                            IF f \in CapturedAtStart THEN TRUE ELSE changed[f]]
            /\ IF threadOk
               THEN /\ g_engine_running' = 1
                    /\ g_engine_thread' = NextThread
                    /\ pc' = [pc EXCEPT ![NextThread] = "start"]
                    /\ status' = "Running"
                    /\ startEnabled' = FALSE
                    /\ stopEnabled' = TRUE
               ELSE /\ g_engine_running' = 0
                    /\ g_engine_thread' = NULL
                    /\ UNCHANGED <<pc, status, startEnabled, stopEnabled>>
            /\ UNCHANGED <<txtVars, pipeVars, box, posted, guiPc, cmdVars, applied, edited, trace, sawStop,
                           playsAfterStop, playsAfterSeen, playFailed,
                           playsAfterFail>>

\* The label and the Start button only.
ShowStoppedStopLeftEnabled ==
    /\ status' = "Stopped"
    /\ startEnabled' = TRUE
    /\ stopEnabled' = stopEnabled

\* Lines 966-969: the end of stop_engine.
ShowStopped ==
    /\ status' = "Stopped"
    /\ startEnabled' = TRUE
    /\ stopEnabled' = FALSE

\* stop_engine, lines 951-961 (IDC_STOP_BTN): up to the call of
\* WaitForSingleObject(g_engine_thread, 5000).
StopEngine ==
    /\ guiPc = "idle"
    /\ stopEnabled
    /\ IF g_engine_running = 0
       THEN \* "Engine is not running."
            UNCHANGED vars
       ELSE /\ g_stop_engine' = 1
            /\ IF g_engine_thread # NULL
               THEN /\ guiPc' = "stop_wait"
                    /\ UNCHANGED <<status, startEnabled, stopEnabled>>
               ELSE /\ guiPc' = "idle"
                    /\ ShowStopped
            /\ UNCHANGED <<txtVars, pipeVars, engVars, g_engine_running, g_engine_thread, active,
                           changed, box, posted, cmdVars, applied, edited>>

StopWaitUntilThreadEnds ==
    /\ guiPc = "stop_wait"
    /\ pc[g_engine_thread] = "done"
    /\ g_engine_thread' = NULL
    /\ guiPc' = "idle"
    /\ ShowStopped
    /\ UNCHANGED <<txtVars, pipeVars, engVars, g_engine_running, g_stop_engine, active, changed,
                   box, posted, cmdVars, applied, edited>>
\* stop_engine, lines 961-969: WaitForSingleObject returns, because the thread has
\* ended or because the 5 seconds are over (the model puts no bound on how long a
\* step of the engine thread takes); then CloseHandle and the labels.
StopWaitReturns ==
    /\ guiPc = "stop_wait"
    /\ g_engine_thread' = NULL
    /\ guiPc' = "idle"
    /\ ShowStopped
    /\ UNCHANGED <<txtVars, pipeVars, engVars, g_engine_running, g_stop_engine, active, changed,
                   box, posted, cmdVars, applied, edited>>

\* WndProc, WM_APP + 1, lines 1444-1460.
EngineStoppedMsg ==
    /\ guiPc = "idle"
    /\ posted > 0
    /\ posted' = posted - 1
    /\ ShowStopped
    /\ UNCHANGED <<txtVars, pipeVars, engVars, g_engine_running, g_stop_engine, g_engine_thread,
                   active, changed, box, guiPc, cmdVars, applied, edited>>

\* The settings apply_settings hands to an encoder setter (lines 979-1034):
\* set_rds_pi, _ps, _rt, _pty, _ptyn, _tp, _ta, _ms, _lps and _ert.
SetByApply == {"PI", "PS", "RT", "PTY", "PTYN", "TP", "TA", "MS", "LPS", "eRT"}

\* The user types a new, non-empty value into the field of setting s (or
\* toggles its check box).
EditField(s) ==
    /\ guiPc = "idle"
    /\ s \notin edited
    /\ Cardinality(edited) < MaxEdits
    /\ edited' = edited \cup {s}
    /\ UNCHANGED <<txtVars, pipeVars, engVars, g_engine_running, g_stop_engine, g_engine_thread,
                   active, changed, box, startEnabled, stopEnabled, status, posted,
                   guiPc, cmdVars, applied>>

\* apply_settings, lines 976-1039 (IDC_APPLY_BTN): the handler enters the encoder
\* setters; nothing in it looks at g_engine_running.
ApplyBegin ==
    /\ guiPc = "idle"
    /\ guiPc' = "apply"
    /\ UNCHANGED <<txtVars, pipeVars, engVars, g_engine_running, g_stop_engine, g_engine_thread,
                   active, changed, box, startEnabled, stopEnabled, status, posted,
                   cmdVars, applied, edited>>

\* apply_settings, lines 1041-1058: the setters are done, the file watch state is
\* read from the window.
ApplyEnd ==
    /\ guiPc = "apply"
    /\ guiPc' = "idle"
    /\ edited' = edited \ SetByApply
    /\ active' = box
    /\ UNCHANGED <<txtVars, pipeVars, engVars, g_engine_running, g_stop_engine, g_engine_thread,
                   changed, box, startEnabled, stopEnabled, status, posted, cmdVars,
                   applied>>

\* fopen(file_path, "r") opens the file in text mode: the stream delivers a
\* carriage return that stands before a line feed as nothing.
RECURSIVE TextMode(_)
TextMode(s) ==
    IF s = <<>>
    THEN <<>>
    ELSE IF Len(s) >= 2 /\ s[1] = "\r" /\ s[2] = "\n"
         THEN TextMode(Tail(s))
         ELSE <<s[1]>> \o TextMode(Tail(s))

\* fgets(line, size, fp): the number of bytes it takes from the stream s, which
\* end with the first line feed, at the end of the stream, or after size - 1 bytes.
FgetsLen(s, size) ==
    LET nl == IF \E i \in 1..Len(s) : s[i] = "\n"
              THEN CHOOSE i \in 1..Len(s) :
                     s[i] = "\n" /\ \A j \in 1..(i - 1) : s[j] # "\n"
              ELSE Len(s)
    IN  IF nl < size - 1 THEN nl ELSE IF Len(s) < size - 1 THEN Len(s) ELSE size - 1

\* Lines 1102-1104: the trailing '\n' and '\r' bytes are cut off.
RECURSIVE StripCRLF(_)
StripCRLF(l) ==
    IF l # <<>> /\ l[Len(l)] \in {"\n", "\r"}
    THEN StripCRLF(SubSeq(l, 1, Len(l) - 1))
    ELSE l

\* execute_command_file, lines 1081-1099 (IDC_EXEC_BTN): without a path, or when
\* fopen fails, the handler returns; otherwise the file is open.
ExecBegin ==
    /\ guiPc = "idle"
    /\ \E opened \in BOOLEAN :
         IF opened
         THEN /\ fp' = TextMode(cmdFile)
              /\ execHanded' = <<>>
              /\ count' = 0
              /\ guiPc' = "cmdfile"
         ELSE UNCHANGED <<fp, execHanded, count, guiPc>>
    /\ UNCHANGED <<txtVars, pipeVars, engVars, g_engine_running, g_stop_engine, g_engine_thread,
                   active, changed, box, startEnabled, stopEnabled, status, posted,
                   cmdFile, applied, edited>>

\* execute_command_file, lines 1101-1110: one turn of the loop. fgets fills
\* line[CMD_BUFFER_SIZE]; the line goes to process_ascii_cmd unless it is empty
\* or begins with '#'.
ExecCmd ==
    /\ guiPc = "cmdfile"
    /\ fp # <<>>
    /\ LET n == FgetsLen(fp, CmdBufferSize)
           line == StripCRLF(SubSeq(fp, 1, n))
       IN  /\ fp' = SubSeq(fp, n + 1, Len(fp))
           /\ IF line = <<>> \/ line[1] = "#"
              THEN UNCHANGED <<execHanded, count>>
              ELSE /\ execHanded' = Append(execHanded, line)
                   /\ count' = count + 1
    /\ UNCHANGED <<txtVars, pipeVars, engVars, g_engine_running, g_stop_engine, g_engine_thread,
                   active, changed, box, startEnabled, stopEnabled, status, posted,
                   guiPc, cmdFile, applied, edited>>

\* execute_command_file, lines 1101 and 1112-1113: fgets returns NULL; fclose, the
\* "Executed %d commands." line and the return, with which the locals are gone.
ExecEnd ==
    /\ guiPc = "cmdfile"
    /\ fp = <<>>
    /\ guiPc' = "idle"
    /\ execHanded' = <<>>
    /\ count' = 0
    /\ UNCHANGED <<txtVars, pipeVars, engVars, g_engine_running, g_stop_engine, g_engine_thread,
                   active, changed, box, startEnabled, stopEnabled, status, posted,
                   cmdFile, fp, applied, edited>>

\* The watches whose file check_file_watches finds changed.
Due == {f \in Files : active[f] /\ changed[f]}

\* check_file_watches, lines 550-591 (IDT_FILEWATCH_TIMER): last_write is updated
\* for every changed file, and with g_engine_running set the handler enters
\* process_<f>_file, which reads the file and, with its text, calls the encoder
\* setters (the files hold text).
WatchTick ==
    /\ guiPc = "idle"
    /\ Due # {}
    /\ changed' = [f \in Files |-> IF f \in Due THEN FALSE ELSE changed[f]]
    /\ IF g_engine_running # 0
       THEN /\ guiPc' = "filewatch"
            /\ \E ok \in ReadOutcomes(Due) :
                 applied' = [f \in Files |-> IF f \in Due THEN ok[f] ELSE applied[f]]
       ELSE /\ guiPc' = "idle"
            /\ UNCHANGED applied
    /\ UNCHANGED <<txtVars, pipeVars, engVars, g_engine_running, g_stop_engine, g_engine_thread,
                   active, box, startEnabled, stopEnabled, status, posted, cmdVars,
                   edited>>

\* check_file_watches: the process_<f>_file calls return.
WatchTickEnd ==
    /\ guiPc = "filewatch"
    /\ guiPc' = "idle"
    /\ UNCHANGED <<txtVars, pipeVars, engVars, g_engine_running, g_stop_engine, g_engine_thread,
                   active, changed, box, startEnabled, stopEnabled, status, posted,
                   cmdVars, applied, edited>>

\* Outside the program: a watched file is rewritten.
FileWritten(f) ==
    /\ ~changed[f]
    /\ changed' = [changed EXCEPT ![f] = TRUE]
    /\ applied' = [applied EXCEPT ![f] = FALSE]
    /\ UNCHANGED <<txtVars, pipeVars, engVars, g_engine_running, g_stop_engine, g_engine_thread,
                   active, box, startEnabled, stopEnabled, status, posted, guiPc,
                   cmdVars, edited>>

\* The GUI thread is inside an encoder setter.
GuiWriting == guiPc \in {"apply", "filewatch", "cmdfile"}

-----------------------------------------------------------------------------
(* Start states                                                             *)

\* No RT+ file; the encoder holds the default RadioText and no RT+ tags.
RtpIdle ==
    /\ rtpText = <<>>
    /\ rt = [i \in 1..RtLength |-> " "]
    /\ rtplus_tags = <<0, 0, 0, 0, 0, 0>>
    /\ rtplus_flags = 0
    /\ lastRtp = "none"

\* No PS text was chunked: g_ps_scroll.num_chunks is 0.
ScrollIdle ==
    /\ now = 0
    /\ last_advance_tick = 0
    /\ current_chunk = 0
    /\ ps = <<>>
    /\ psHanded = <<>>
    /\ advancedAt = <<>>
    /\ loadPc = "none"

PsIdle ==
    /\ psText = <<>>
    /\ chunks = <<>>
    /\ psPc = "none"
    /\ ScrollIdle

\* The encoder's PTY is 0 and set_rds_pty was not called.
PtyIdle ==
    /\ pty = 0
    /\ ptyGiven = 0
    /\ ptyFrom = "none"

\* float2char2channel was not called.
PackIdle ==
    /\ frames = 0
    /\ inbuf2 = <<>>
    /\ outbuf = <<>>
    /\ packPc = "none"

\* getopt.c, lines 12-17: the initial values; no command line is being parsed.
OptIdle ==
    /\ argv = <<>>
    /\ optstring = <<>>
    /\ useLong = FALSE
    /\ optind = 1
    /\ optwhere = 1
    /\ optarg = <<>>
    /\ optopt = "?"
    /\ result = "none"
    /\ longindex = -1
    /\ flagged = <<>>

TextIdle == RtpIdle /\ PsIdle /\ PtyIdle /\ PackIdle /\ OptIdle

PipeIdle ==
    /\ platform = "none"
    /\ pollPc = "idle"
    /\ elapsed = 0
    /\ hEvent = FALSE
    /\ armed = FALSE
    /\ opens = 0
    /\ client = "none"
    /\ inbuf = <<>>
    /\ pipe_buf = <<>>
    /\ payload = <<>>
    /\ lastRead = "none"
    /\ handed = <<>>
    /\ eofSeen = FALSE
    /\ before = "\n"

\* WM_CREATE and the globals' initialisers: no engine, Stop disabled (line 1302).
GuiInit ==
    /\ g_engine_running = 0
    /\ g_stop_engine = 0
    /\ g_engine_thread = NULL
    /\ active = [f \in Files |-> FALSE]
    /\ changed = [f \in Files |-> TRUE]
    /\ applied = [f \in Files |-> FALSE]
    /\ edited = {}
    /\ box \in [Files -> BOOLEAN]
    /\ startEnabled = TRUE
    /\ stopEnabled = FALSE
    /\ status = "Stopped"
    /\ posted = 0
    /\ guiPc = "idle"
    /\ fp = <<>>
    /\ execHanded = <<>>
    /\ count = 0
    /\ pc = [t \in Threads |-> "unborn"]
    /\ trace = [t \in Threads |-> <<>>]
    /\ sawStop = [t \in Threads |-> FALSE]
    /\ playsAfterStop = [t \in Threads |-> 0]
    /\ playsAfterSeen = [t \in Threads |-> 0]
    /\ playFailed = [t \in Threads |-> FALSE]
    /\ playsAfterFail = [t \in Threads |-> 0]

\* A command file of k command lines.
CmdLines(k) == [i \in 1..(2 * k) |-> IF i % 2 = 1 THEN "a" ELSE "\n"]

Init == GuiInit /\ PipeIdle /\ TextIdle /\ cmdFile = CmdLines(MaxCmds)

Next ==
    \/ StartEngine
    \/ StopEngine
    \/ StopWaitReturns
    \/ EngineStoppedMsg
    \/ ApplyBegin
    \/ ApplyEnd
    \/ ExecBegin
    \/ ExecCmd
    \/ ExecEnd
    \/ WatchTick
    \/ WatchTickEnd
    \/ \E f \in Files : FileWritten(f)
    \/ \E t \in Threads :
         \/ EngAlloc(t)
         \/ EngRdsInit(t)
         \/ EngAudioSetup(t)
         \/ EngLoopCheck(t)
         \/ EngGetFrames(t)
         \/ EngAoPlay(t)
         \/ EngTeardown(t)
         \/ EngCleanup(t)
         \/ EngExit(t)
         \/ EngPost(t)

Spec == Init /\ [][Next]_vars

-----------------------------------------------------------------------------
(* Properties of the engine and the GUI thread, checked under Spec          *)

\* The calls of thread t from position i of its trace on.
TraceFrom(t, i) == SubSeq(trace[t], i, Len(trace[t]))

\* The first position of call c in the trace of t, 0 when it is not there.
IndexOf(t, c) ==
    IF \E i \in 1..Len(trace[t]) : trace[t][i] = c
    THEN CHOOSE i \in 1..Len(trace[t]) :
           trace[t][i] = c /\ \A j \in 1..(i - 1) : trace[t][j] # c
    ELSE 0

\* Thread t called a and later b.
Precedes(t, a, b) == IndexOf(t, a) > 0 /\ IndexOf(t, a) < IndexOf(t, b)

\* The thread has just set g_engine_running to 0 (line 893).
Signalled(t) == pc[t] = "post"

\* C1: once g_stop_engine is set, an engine thread begins at most one more
\* ao_play call (the buffer it was producing when the flag was set), and none
\* after its loop condition has read the flag.
C1_AtMostOneBufferAfterStop ==
    \A t \in Threads : playsAfterStop[t] <= 1 /\ playsAfterSeen[t] = 0

\* C1 witness: a thread submitted one buffer after the flag was set, then saw the
\* flag and went through its teardown.
C1_Witness ==
    \E t \in Threads : playsAfterStop[t] = 1 /\ sawStop[t] /\ Signalled(t)

\* What the thread has called once an ao_play failure has taken it to the end.
CallsAfterFullRun ==
    <<"fm_mpx_init", "init_rds_encoder", "ao_initialize", "ao_open_live",
      "resampler_init", "resampler_exit", "ao_close", "ao_shutdown", "fm_mpx_exit",
      "exit_rds_encoder", "running_0">>

\* C2: after an ao_play failure the thread submits no further buffer, is out of
\* the loop, and by the time it has set g_engine_running to 0 it has called
\* resampler_exit, ao_close, ao_shutdown, fm_mpx_exit and exit_rds_encoder.
C2_SinkFailureStopsCleanly ==
    \A t \in Threads :
      playFailed[t] =>
        /\ playsAfterFail[t] = 0
        /\ pc[t] \in {"teardown", "engine_cleanup", "engine_exit", "post"}
        /\ Signalled(t) => trace[t] = CallsAfterFullRun

\* C2 witness: a thread whose ao_play failed has set g_engine_running to 0.
C2_Witness == \E t \in Threads : playFailed[t] /\ Signalled(t)

\* C3: at most one engine thread is between fm_mpx_init and the end of
\* exit_rds_encoder.
C3_OneEngineAtATime ==
    Cardinality({t \in Threads : pc[t] \in Initialised}) <= 1

\* C3 witness: stop_engine gave up waiting for a thread that is still in ao_play,
\* Start is enabled again and another thread can be created.
C3_Witness ==
    /\ \E t, u \in Threads : pc[t] = "ao_play" /\ pc[u] = "unborn"
    /\ g_engine_thread = NULL
    /\ g_stop_engine = 1
    /\ startEnabled

\* C4 (as claimed): the GUI thread is never inside an encoder setter while an
\* engine thread is writing the encoder state at its start-up.
C4_NoConcurrentWriters ==
    \A t \in Threads : ~(EngineWriting(t) /\ GuiWriting)

\* C5 (as claimed): no engine thread is inside fm_rds_get_frames while the
\* commands of a command file are being applied.
C5_CommandsBetweenIterations ==
    \A t \in Threads : ~(InGetFrames(t) /\ guiPc = "cmdfile")

\* C6 (as claimed): a thread that saw the stop flag and has signalled that it
\* stopped has called ao_close, then resampler_exit, then drained the pending
\* commands, and only then set g_engine_running to 0.
C6_SinkThenResamplerThenDrain ==
    \A t \in Threads :
      (sawStop[t] /\ Signalled(t)) =>
        /\ Precedes(t, "ao_close", "resampler_exit")
        /\ Precedes(t, "resampler_exit", "final_drain")
        /\ Precedes(t, "final_drain", "running_0")

\* C6 (amended): a thread that saw the stop flag has, in this order, called
\* resampler_exit, ao_close, ao_shutdown, fm_mpx_exit and exit_rds_encoder before
\* it sets g_engine_running to 0 (the WM_APP + 1 message follows); it drains no
\* commands.
C6_ResamplerThenSinkNoDrain ==
    \A t \in Threads :
      (sawStop[t] /\ Signalled(t)) =>
        /\ TraceFrom(t, 6) =
             <<"resampler_exit", "ao_close", "ao_shutdown", "fm_mpx_exit",
               "exit_rds_encoder", "running_0">>
        /\ IndexOf(t, "final_drain") = 0

\* C6 witness: a thread that saw the stop flag while stop_engine was waiting for
\* it has set g_engine_running to 0.
C6_Witness ==
    \E t \in Threads : sawStop[t] /\ Signalled(t) /\ guiPc = "stop_wait"

-----------------------------------------------------------------------------
(* control_pipe.c (src/unnamed/part_000): poll_control_pipe                 *)

\* The model's CTL_BUFFER_SIZE: a read takes at most CtlBufferSize - 1 bytes.
CtlBufferSize == 4
\* The model's READ_TIMEOUT_MS, in time units.
ReadTimeout == 2
\* Time units the model follows a call that is blocked without a timeout.
MaxBlocked == 3
\* Bytes the pipe holds unread.
MaxBuf == 4

\* The bytes a client writes; none of them is NUL.
Chars == {"a", "b", "\n"}
\* The delimiter set given to strtok.
Delims == {"\n"}

Min(a, b) == IF a < b THEN a ELSE b

MemsetSkipped(buf) == buf
\* memset(pipe_buf, 0, CTL_BUFFER_SIZE): the empty C string.
Memset(buf) == <<>>

\* read / ReadFile storing bytes at the start of buf; what follows them stays.
ReadInto(buf, bytes) == bytes \o SubSeq(buf, Len(bytes) + 1, Len(buf))

SkipDelimsNot(s, p) == p
\* strtok, first half: the first position from p on that holds no delimiter
\* (Len(s) + 1 at the end of the string).
SkipDelims(s, p) ==
    IF \E i \in p..Len(s) : s[i] \notin Delims
    THEN CHOOSE i \in p..Len(s) :
           s[i] \notin Delims /\ \A j \in p..(i - 1) : s[j] \in Delims
    ELSE Len(s) + 1

\* strtok, second half: the first position from p on that holds a delimiter
\* (Len(s) + 1 at the end of the string); the token ends before it.
ScanToken(s, p) ==
    IF \E i \in p..Len(s) : s[i] \in Delims
    THEN CHOOSE i \in p..Len(s) :
           s[i] \in Delims /\ \A j \in p..(i - 1) : s[j] \notin Delims
    ELSE Len(s) + 1

\* The tokens strtok(s, "\n"), strtok(NULL, "\n"), ... return until NULL, with
\* the scan at position p.
RECURSIVE Tokens(_, _)
Tokens(s, p) ==
    LET b == SkipDelims(s, p)
    IN  IF b > Len(s)
        THEN <<>>
        ELSE LET e == ScanToken(s, b)
             IN  <<SubSeq(s, b, e - 1)>> \o Tokens(s, e + 1)

\* memset(cmd_buf, 0, CMD_BUFFER_SIZE); memcpy(cmd_buf, token, CMD_BUFFER_SIZE - 1):
\* the C string cmd_buf then holds (the bytes copied from behind the token's NUL
\* are not part of it).
CopyCmd(token) == SubSeq(token, 1, Min(Len(token), CmdBufferSize - 1))

\* The loop "handle commands per line": the arguments of the process_ascii_cmd
\* calls, in order.
Hand(buf) ==
    LET toks == Tokens(buf, 1)
    IN  [i \in 1..Len(toks) |-> CopyCmd(toks[i])]

\* The bytes one read takes from the pipe.
Taken == SubSeq(inbuf, 1, Min(Len(inbuf), CtlBufferSize - 1))

\* Windows: WaitForSingleObject(hEvent) is satisfied; POSIX: poll() reports the
\* descriptor (POLLIN with data, POLLHUP once the writer has closed).
Ready ==
    IF platform = "win" THEN hEvent ELSE inbuf # <<>> \/ client = "closed"

\* The caller calls poll_control_pipe.
PollBegin ==
    /\ platform # "none"
    /\ pollPc = "idle"
    /\ pollPc' = "wait"
    /\ elapsed' = 0
    /\ lastRead' = "none"
    /\ handed' = <<>>
    /\ payload' = <<>>
    /\ before' = IF payload # <<>> THEN payload[Len(payload)] ELSE before
    /\ UNCHANGED <<txtVars, guiVars, engVars, platform, hEvent, armed, opens, client, inbuf,
                   pipe_buf, eofSeen>>

\* A time unit passes while poll_control_pipe waits: in WaitForSingleObject or
\* poll() up to the timeout, in GetOverlappedResult(bWait = TRUE) without one.
Tick ==
    /\ \/ pollPc = "wait" /\ ~Ready /\ elapsed < ReadTimeout
       \/ pollPc = "gor" /\ inbuf = <<>> /\ client = "open" /\ elapsed < MaxBlocked
    /\ elapsed' = elapsed + 1
    /\ UNCHANGED <<txtVars, guiVars, engVars, platform, pollPc, hEvent, armed, opens, client,
                   inbuf, pipe_buf, payload, lastRead, handed, eofSeen, before>>

\* Windows lines 71-72, POSIX line 161: the wait times out and the call returns.
PollTimeout ==
    /\ pollPc = "wait"
    /\ ~Ready
    /\ elapsed = ReadTimeout
    /\ pollPc' = "idle"
    /\ lastRead' = "timeout"
    /\ elapsed' = 0
    /\ UNCHANGED <<txtVars, guiVars, engVars, platform, hEvent, armed, opens, client,
                   inbuf, pipe_buf, payload, handed, eofSeen, before>>

\* Windows lines 84-86 and 95-97: DisconnectNamedPipe, ResetEvent,
\* ConnectNamedPipe.
Rearm ==
    /\ client' = "none"
    /\ inbuf' = <<>>
    /\ hEvent' = FALSE
    /\ armed' = TRUE

\* The read returned the bytes Taken: they are in pipe_buf and the loop hands the
\* lines over (Windows lines 101-109, POSIX lines 175-183).
GotData ==
    /\ payload' = Taken
    /\ inbuf' = SubSeq(inbuf, Len(Taken) + 1, Len(inbuf))
    /\ pipe_buf' = ReadInto(Memset(pipe_buf), Taken)
    /\ handed' = Hand(pipe_buf')
    /\ lastRead' = "data"
    /\ pollPc' = "idle"

\* Windows lines 71-99: the event is signalled; ResetEvent, memset, ReadFile.
\* fault: ReadFile fails with an error that is neither ERROR_IO_PENDING nor
\* ERROR_BROKEN_PIPE.
WinRead ==
    /\ platform = "win"
    /\ pollPc = "wait"
    /\ hEvent
    /\ \E fault \in BOOLEAN :
         CASE fault \/ client = "none" ->
                \* lines 88-90: return
                /\ hEvent' = FALSE
                /\ pipe_buf' = Memset(pipe_buf)
                /\ lastRead' = "error"
                /\ eofSeen' = TRUE
                /\ pollPc' = "idle"
                /\ UNCHANGED <<armed, client, inbuf, payload, handed>>
           [] ~fault /\ client # "none" /\ inbuf # <<>> ->
                \* ReadFile completes at once; the completion signals the event
                /\ GotData
                /\ hEvent' = TRUE
                /\ UNCHANGED <<armed, client, eofSeen>>
           [] ~fault /\ client = "open" /\ inbuf = <<>> ->
                \* line 81: ERROR_IO_PENDING, GetOverlappedResult(..., TRUE)
                /\ hEvent' = FALSE
                /\ pipe_buf' = Memset(pipe_buf)
                /\ pollPc' = "gor"
                /\ UNCHANGED <<armed, client, inbuf, payload, handed, lastRead,
                               eofSeen>>
           [] ~fault /\ client = "closed" /\ inbuf = <<>> ->
                \* lines 82-87: ERROR_BROKEN_PIPE
                /\ Rearm
                /\ pipe_buf' = Memset(pipe_buf)
                /\ lastRead' = "broken"
                /\ eofSeen' = TRUE
                /\ pollPc' = "idle"
                /\ UNCHANGED <<payload, handed>>
    /\ elapsed' = IF pollPc' = "idle" THEN 0 ELSE elapsed
    /\ UNCHANGED <<txtVars, guiVars, engVars, platform, opens, before>>

\* Windows lines 81 and 93-109: GetOverlappedResult returns, with the bytes that
\* arrived or, the client gone, with bytes_read = 0.
WinOverlapped ==
    /\ platform = "win"
    /\ pollPc = "gor"
    /\ inbuf # <<>> \/ client = "closed"
    /\ IF inbuf # <<>>
       THEN /\ GotData
            /\ hEvent' = TRUE
            /\ UNCHANGED <<armed, client, eofSeen>>
       ELSE /\ Rearm
            /\ lastRead' = "zero"
            /\ eofSeen' = TRUE
            /\ pollPc' = "idle"
            /\ UNCHANGED <<pipe_buf, payload, handed>>
    /\ elapsed' = IF pollPc' = "idle" THEN 0 ELSE elapsed
    /\ UNCHANGED <<txtVars, guiVars, engVars, platform, opens, before>>

PosixOutcomes == {"select_failed", "read_failed", "read"}

\* POSIX lines 161-183: poll() reports the descriptor; memset, select, read, and
\* the loop over the lines. The value read() returns is not looked at.
PosixRead ==
    /\ platform = "posix"
    /\ pollPc = "wait"
    /\ Ready
    /\ \E o \in PosixOutcomes :
         CASE o = "select_failed" ->
                \* lines 169-170: ret == -1
                /\ pipe_buf' = Memset(pipe_buf)
                /\ lastRead' = "select"
                /\ pollPc' = "idle"
                /\ UNCHANGED <<inbuf, payload, handed, eofSeen>>
           [] o = "read_failed" ->
                \* read() returns -1 and stores nothing
                /\ pipe_buf' = Memset(pipe_buf)
                /\ handed' = Hand(pipe_buf')
                /\ lastRead' = "error"
                /\ eofSeen' = TRUE
                /\ pollPc' = "idle"
                /\ UNCHANGED <<inbuf, payload>>
           [] o = "read" /\ inbuf # <<>> ->
                /\ GotData
                /\ UNCHANGED eofSeen
           [] o = "read" /\ inbuf = <<>> ->
                \* read() returns 0: the writer has closed the FIFO
                /\ pipe_buf' = Memset(pipe_buf)
                /\ handed' = Hand(pipe_buf')
                /\ lastRead' = "eof"
                /\ eofSeen' = TRUE
                /\ pollPc' = "idle"
                /\ UNCHANGED <<inbuf, payload>>
    /\ elapsed' = 0
    /\ UNCHANGED <<txtVars, guiVars, engVars, platform, hEvent, armed, opens, client, before>>

\* Outside the program: a client opens the pipe for writing. The named pipe has
\* one instance and takes a client only while a ConnectNamedPipe is outstanding;
\* the completion of that call signals the event.
ClientConnects ==
    /\ IF platform = "win"
       THEN /\ client = "none"
            /\ armed
            /\ armed' = FALSE
            /\ hEvent' = TRUE
            /\ before' = "\n"
       ELSE /\ platform = "posix"
            /\ client \in {"none", "closed"}
            /\ UNCHANGED <<armed, hEvent, before>>
    /\ client' = "open"
    /\ UNCHANGED <<txtVars, guiVars, engVars, platform, pollPc, elapsed, opens, inbuf, pipe_buf,
                   payload, lastRead, handed, eofSeen>>

\* Outside the program: the client writes a byte.
ClientWrites(c) ==
    /\ client = "open"
    /\ Len(inbuf) < MaxBuf
    /\ inbuf' = Append(inbuf, c)
    /\ UNCHANGED <<txtVars, guiVars, engVars, platform, pollPc, elapsed, hEvent, armed, opens,
                   client, pipe_buf, payload, lastRead, handed, eofSeen, before>>

\* Outside the program: the client closes its end.
ClientCloses ==
    /\ client = "open"
    /\ client' = "closed"
    /\ UNCHANGED <<txtVars, guiVars, engVars, platform, pollPc, elapsed, hEvent, armed, opens,
                   inbuf, pipe_buf, payload, lastRead, handed, eofSeen, before>>

\* The GUI at rest: the pipe reader is followed on its own.
GuiAtRest ==
    GuiInit /\ box = [f \in Files |-> FALSE] /\ cmdFile = <<>> /\ TextIdle

\* After open_control_pipe: the named pipe exists and awaits a client (Windows
\* lines 30-61), or the FIFO is open for non-blocking reads (POSIX lines 132-141).
PipeInit ==
    /\ GuiAtRest
    /\ platform \in {"win", "posix"}
    /\ pollPc = "idle"
    /\ elapsed = 0
    /\ hEvent = FALSE
    /\ armed = (platform = "win")
    /\ opens = 1
    /\ client = "none"
    /\ inbuf = <<>>
    /\ pipe_buf = <<>>
    /\ payload = <<>>
    /\ lastRead = "none"
    /\ handed = <<>>
    /\ eofSeen = FALSE
    /\ before = "\n"

PipeNext ==
    \/ PollBegin
    \/ Tick
    \/ PollTimeout
    \/ WinRead
    \/ WinOverlapped
    \/ PosixRead
    \/ ClientConnects
    \/ \E c \in Chars : ClientWrites(c)
    \/ ClientCloses

SpecPipe == PipeInit /\ [][PipeNext]_vars

-----------------------------------------------------------------------------
(* Properties of poll_control_pipe, checked under SpecPipe                  *)

\* The pieces of s between its line feeds, empty ones included.
RECURSIVE SplitLines(_)
SplitLines(s) ==
    IF \A i \in 1..Len(s) : s[i] # "\n"
    THEN <<s>>
    ELSE LET i == CHOOSE k \in 1..Len(s) :
                    s[k] = "\n" /\ \A j \in 1..(k - 1) : s[j] # "\n"
         IN  <<SubSeq(s, 1, i - 1)>> \o SplitLines(SubSeq(s, i + 1, Len(s)))

IsNonEmpty(l) == l # <<>>

\* The non-empty lines of s, in textual order.
NonEmptyLines(s) == SelectSeq(SplitLines(s), IsNonEmpty)

\* c is line l, whole or cut to the size of the command buffer.
IsLineOrCut(c, l) ==
    /\ Len(c) <= Len(l)
    /\ c = SubSeq(l, 1, Len(c))
    /\ Len(c) = Len(l) \/ Len(c) = CmdBufferSize - 1

\* A poll_control_pipe call has returned.
Returned == pollPc = "idle" /\ lastRead # "none"

\* C7 (as claimed): no poll_control_pipe call waits longer than its poll timeout.
C7_PollReturnsWithinTimeout == elapsed <= ReadTimeout

\* C8 (as claimed): on the named pipe, a poll whose read failed (broken pipe or
\* another error) or returned 0 bytes has handed over no command and has
\* disconnected the pipe and re-armed it for the next client.
C8_ReadFailureRearms ==
    (platform = "win" /\ Returned /\ lastRead \in {"broken", "zero", "error"}) =>
        /\ handed = <<>>
        /\ client = "none"
        /\ armed

\* C9 (as claimed): on the FIFO, a poll whose read hit the end of file or failed
\* has handed over no command and has opened the control pipe again.
C9_EofReopensPipe ==
    (platform = "posix" /\ Returned /\ lastRead \in {"eof", "error"}) =>
        /\ handed = <<>>
        /\ opens > 1

\* C9 (amended): on the FIFO, a poll whose read hit the end of file or failed
\* hands over no command; the pipe is not opened again, the same descriptor
\* stays in use, and a later poll that reads a later writer's bytes hands over
\* each of their non-empty lines.
C9_EofKeepsDescriptor ==
    platform = "posix" =>
        /\ opens = 1
        /\ (Returned /\ lastRead \in {"eof", "error"}) => handed = <<>>
        /\ (Returned /\ lastRead = "data" /\ eofSeen) =>
              /\ Len(handed) = Len(NonEmptyLines(payload))
              /\ \A i \in 1..Len(handed) :
                   IsLineOrCut(handed[i], NonEmptyLines(payload)[i])

\* C9 witness: after a read that hit the end of file, a later poll has read the
\* bytes of a new writer and handed a command over.
C9_Witness ==
    /\ platform = "posix"
    /\ Returned
    /\ eofSeen
    /\ lastRead = "data"
    /\ client = "open"
    /\ handed # <<>>

\* C10: a poll that read a payload has called process_ascii_cmd once for each
\* non-empty line of the payload, in textual order (a line longer than the
\* command buffer is handed over cut to its size).
C10_EachLineOnceInOrder ==
    (Returned /\ lastRead = "data") =>
        /\ Len(handed) = Len(NonEmptyLines(payload))
        /\ \A i \in 1..Len(handed) :
             IsLineOrCut(handed[i], NonEmptyLines(payload)[i])

\* C10 witness: a payload of two different lines was handed over in its order.
C10_Witness ==
    /\ Returned
    /\ lastRead = "data"
    /\ payload = <<"b", "\n", "a">>
    /\ handed = << <<"b">>, <<"a">> >>

-----------------------------------------------------------------------------
(* poll_control_pipe on the text of a command stream (SpecPipeText)         *)

\* The bytes of a command stream that the line handling tells apart: a letter,
\* the comment mark, carriage return and line feed.
TextChars == {"a", "#", "\r", "\n"}

\* The strings over A of at most n bytes.
StringsOver(A, n) == UNION {[1..k -> A] : k \in 0..n}

\* A client has opened the pipe and written a text before the first poll; it
\* keeps its end open or has closed it.
PipeTextInit ==
    /\ GuiAtRest
    /\ platform \in {"win", "posix"}
    /\ pollPc = "idle"
    /\ elapsed = 0
    /\ hEvent = (platform = "win")
    /\ armed = FALSE
    /\ opens = 1
    /\ client \in {"open", "closed"}
    /\ inbuf \in StringsOver(TextChars, MaxBuf) \ {<<>>}
    /\ pipe_buf = <<>>
    /\ payload = <<>>
    /\ lastRead = "none"
    /\ handed = <<>>
    /\ eofSeen = FALSE
    /\ before = "\n"

PipeTextNext ==
    \/ PollBegin
    \/ Tick
    \/ PollTimeout
    \/ WinRead
    \/ WinOverlapped
    \/ PosixRead
    \/ ClientCloses

SpecPipeText == PipeTextInit /\ [][PipeTextNext]_vars

\* C11 (as claimed): poll_control_pipe never hands process_ascii_cmd an empty
\* line, a line that is only a carriage return, or a line that begins with '#',
\* and no command it hands over ends with a carriage return.
C11_NoBlankCommentOrCR ==
    \A i \in 1..Len(handed) :
        /\ handed[i] # <<>>
        /\ handed[i] # <<"\r">>
        /\ handed[i][1] # "#"
        /\ handed[i][Len(handed[i])] # "\r"

-----------------------------------------------------------------------------
(* execute_command_file on the text of a command file (SpecCmdFile)         *)

\* Bytes of a command file.
MaxFile == 4

\* The engine is not started; the command file holds any text.
CmdFileInit ==
    /\ GuiInit
    /\ box = [f \in Files |-> FALSE]
    /\ PipeIdle
    /\ TextIdle
    /\ cmdFile \in StringsOver(TextChars, MaxFile)

CmdFileNext ==
    \/ ExecBegin
    \/ ExecCmd
    \/ ExecEnd

SpecCmdFile == CmdFileInit /\ [][CmdFileNext]_vars

IsCommandLine(l) == l # <<>> /\ l[1] # "#"

\* l without the carriage returns and line feeds at its end.
RECURSIVE WithoutLineEnd(_)
WithoutLineEnd(l) ==
    IF l = <<>> \/ l[Len(l)] \notin {"\r", "\n"}
    THEN l
    ELSE WithoutLineEnd(SubSeq(l, 1, Len(l) - 1))

\* The lines of the file s that are commands: each line without its line end,
\* the empty ones and the ones that begin with '#' left out.
CommandLines(s) ==
    LET ls == SplitLines(s)
    IN  SelectSeq([i \in 1..Len(ls) |-> WithoutLineEnd(ls[i])], IsCommandLine)

\* C12 (as claimed): when execute_command_file has read the whole file, the lines
\* it handed to process_ascii_cmd are exactly the command lines of the file, each
\* whole and once, in file order, and count is their number.
C12_EachCommandLineWhole ==
    (guiPc = "cmdfile" /\ fp = <<>>) =>
        /\ execHanded = CommandLines(cmdFile)
        /\ count = Len(CommandLines(cmdFile))

-----------------------------------------------------------------------------
(* stop_engine and the engine thread that does not end (SpecStop)           *)

\* WaitForSingleObject(g_engine_thread, 5000) returns after 5 seconds at the
\* latest: the step that ends the wait is taken. Nothing is assumed of the
\* engine threads, which may stay for ever where they are.
SpecStop == Spec /\ WF_vars(StopWaitReturns)

\* C13: a stop_engine call that waits for the engine thread returns, whatever the
\* thread does, with the thread handle closed and g_engine_thread NULL, and the
\* window shows the engine as stopped.
C13_StopEngineReturns ==
    (guiPc = "stop_wait") ~>
        (guiPc = "idle" /\ g_engine_thread = NULL /\ status = "Stopped" /\ startEnabled)

\* C13 witness: stop_engine has returned although the thread it waited for is
\* still inside ao_play and g_engine_running is still 1.
C13_Witness ==
    /\ guiPc = "idle"
    /\ g_stop_engine = 1
    /\ g_engine_thread = NULL
    /\ status = "Stopped"
    /\ g_engine_running = 1
    /\ \E t \in Threads : pc[t] = "ao_play"

-----------------------------------------------------------------------------
(* apply_settings and the settings of the window (SpecSettings)             *)

\* No file is watched and no command file is named; the user edits settings.
SettingsInit ==
    /\ GuiInit
    /\ box = [f \in Files |-> FALSE]
    /\ PipeIdle
    /\ TextIdle
    /\ cmdFile = <<>>

SettingsNext ==
    \/ StartEngine
    \/ StopEngine
    \/ StopWaitReturns
    \/ EngineStoppedMsg
    \/ ApplyBegin
    \/ ApplyEnd
    \/ \E s \in Settings : EditField(s)
    \/ \E t \in Threads :
         \/ EngAlloc(t)
         \/ EngRdsInit(t)
         \/ EngAudioSetup(t)
         \/ EngLoopCheck(t)
         \/ EngGetFrames(t)
         \/ EngAoPlay(t)
         \/ EngTeardown(t)
         \/ EngCleanup(t)
         \/ EngExit(t)
         \/ EngPost(t)

SpecSettings == SettingsInit /\ [][SettingsNext]_vars

\* An engine thread is in its main loop: the encoder is initialised and running.
EncoderRunning == \E t \in Threads : pc[t] \in {"loop_check", "get_frames", "ao_play"}

\* No engine thread exists: before the first Start, or after the engine ended.
NoEngine == g_engine_running = 0 /\ \A t \in Threads : pc[t] \in {"unborn", "done"}

\* C14 (as claimed): when apply_settings returns while the encoder is running,
\* every setting edited in the window is in effect in the encoder.
C14_ApplyMakesEverySettingEffective ==
    [][(guiPc = "apply" /\ guiPc' = "idle" /\ EncoderRunning) => edited' = {}]_vars

\* C15 (as claimed): while no engine exists, the GUI thread is not inside the
\* setters of apply_settings and execute_command_file has handed no line to
\* process_ascii_cmd.
C15_SettersOnlyWhileRunning ==
    NoEngine => (guiPc # "apply" /\ count = 0)

-----------------------------------------------------------------------------
(* The file watches while the engine runs (Spec)                            *)

\* C16 (as claimed): with the PT "Watch" box ticked and a path entered when
\* Start was clicked, the PT watch is in effect while the encoder runs, as the RT
\* watch is: the encoder holds what the PT file holds, or the change of the file
\* is still to be picked up by the next file-watch tick.
C16_PtWatchedFromStart ==
    (EncoderRunning /\ box["pt"]) =>
        /\ active["pt"]
        /\ applied["pt"] \/ changed["pt"]

\* C17 (as claimed): while the encoder runs, a file-watch tick that records the
\* change of a watched file as seen (last_write takes the write time of the file)
\* has applied what the file holds to the encoder.
C17_SeenChangeIsApplied ==
    [][\A f \in Files :
         (/\ EncoderRunning
          /\ guiPc = "idle" /\ guiPc' = "filewatch"
          /\ active[f] /\ changed[f] /\ ~changed'[f]) => applied'[f]]_vars

-----------------------------------------------------------------------------
(* process_rtp_file (minirds_gui.c lines 427-523) and SpecRtp               *)

\* Bytes of the RT+ file.
MaxRtpFile == 4

\* The bytes of an RT+ file: letters of both cases, the separator bar, space.
RtpChars == {"a", "B", "|", " "}
\* The glyphs of a RadioText.
RtChars == {"a", "b", " "}

\* tolower, as strncasecmp applies it.
Lower(c) == CASE c = "A" -> "a" [] c = "B" -> "b" [] OTHER -> c

\* read_file_text, lines 369-372: trailing '\n', '\r', ' ' and '\t' are cut off.
RECURSIVE TrimTrailingWs(_)
TrimTrailingWs(s) ==
    IF s # <<>> /\ s[Len(s)] \in {"\n", "\r", " ", "\t"}
    THEN TrimTrailingWs(SubSeq(s, 1, Len(s) - 1))
    ELSE s

\* read_file_text, lines 353-375, when it returns a text.
ReadFileText(s) == TrimTrailingWs(TextMode(s))

\* strstr(text, "||"): the position of the first "||", 0 for NULL.
StrStrBars(text) ==
    IF \E i \in 1..(Len(text) - 1) : text[i] = "|" /\ text[i + 1] = "|"
    THEN CHOOSE i \in 1..(Len(text) - 1) :
           /\ text[i] = "|" /\ text[i + 1] = "|"
           /\ \A j \in 1..(i - 1) : ~(text[j] = "|" /\ text[j + 1] = "|")
    ELSE 0

\* Trailing spaces cut off (lines 446-447 and 466-467).
RECURSIVE TrimTrailingSpaces(_)
TrimTrailingSpaces(s) ==
    IF s # <<>> /\ s[Len(s)] = " "
    THEN TrimTrailingSpaces(SubSeq(s, 1, Len(s) - 1))
    ELSE s

\* Leading spaces skipped (line 455).
RECURSIVE SkipSpaces(_)
SkipSpaces(s) == IF s # <<>> /\ s[1] = " " THEN SkipSpaces(Tail(s)) ELSE s

\* Lines 445-451: the artist is the text before the separator without its
\* trailing spaces, cut to RT_LENGTH - 1 bytes.
Artist(text, sep) ==
    LET raw == TrimTrailingSpaces(SubSeq(text, 1, sep - 1))
    IN  SubSeq(raw, 1, Min(Len(raw), RtLength - 1))

\* Lines 454-457: the title is the text behind the separator without its
\* leading spaces, cut to RT_LENGTH - 1 bytes.
Title(text, sep) ==
    LET raw == SkipSpaces(SubSeq(text, sep + 2, Len(text)))
    IN  SubSeq(raw, 1, Min(Len(raw), RtLength - 1))

\* Lines 460-467: the RadioText of the encoder without its trailing spaces.
CurrentRt(r) == TrimTrailingSpaces(r)

\* strncasecmp(hay + i, needle, Len(needle)) == 0, with i counted from 0.
MatchesAt(hay, needle, i) ==
    \A k \in 1..Len(needle) : Lower(hay[i + k]) = Lower(needle[k])

\* Lines 476-491: the case-insensitive search. The result is the position of the
\* first match counted from 1, and 0 for NULL.
FindNoCase(hay, needle) ==
    IF /\ Len(needle) > 0
       /\ Len(needle) <= Len(hay)
       /\ \E i \in 0..(Len(hay) - Len(needle)) : MatchesAt(hay, needle, i)
    THEN 1 + CHOOSE i \in 0..(Len(hay) - Len(needle)) :
               /\ MatchesAt(hay, needle, i)
               /\ \A j \in 0..(i - 1) : ~MatchesAt(hay, needle, j)
    ELSE 0

FoundAlways(apos, tpos) == TRUE
\* Line 494: one of the two was found.
Found(apos, tpos) == apos # 0 \/ tpos # 0

\* Lines 502 and 504: the start of a tag, a uint8_t.
TagStart(pos) == IF pos # 0 THEN (pos - 1) % 256 ELSE 0

TagLenWhole(pos, str) == IF pos # 0 THEN Len(str) % 256 ELSE 0
\* Lines 503 and 505: the length marker of a tag, strlen - 1 as a uint8_t.
TagLen(pos, str) == IF pos # 0 THEN (Len(str) - 1) % 256 ELSE 0

\* Lines 502-511: the six tag bytes; type 4 is ITEM.ARTIST, 1 is ITEM.TITLE and
\* 0 is DUMMY.
RtpTags(artist, apos, title, tpos) ==
    <<IF apos # 0 THEN 4 ELSE 0, TagStart(apos), TagLen(apos, artist),
      IF tpos # 0 THEN 1 ELSE 0, TagStart(tpos), TagLen(tpos, title)>>

\* process_rtp_file, lines 427-523. ok is what read_file_text does: it returns
\* the text, or NULL.
ProcessRtpFile ==
    /\ lastRtp = "none"
    /\ \E ok \in BOOLEAN :
         LET text   == ReadFileText(rtpText)
             sep    == StrStrBars(text)
             artist == Artist(text, sep)
             title  == Title(text, sep)
             cur    == CurrentRt(rt)
             apos   == FindNoCase(cur, artist)
             tpos   == FindNoCase(cur, title)
         IN  CASE ~ok ->
                    /\ lastRtp' = "read_failed"
                    /\ UNCHANGED <<rtplus_tags, rtplus_flags>>
               [] ok /\ text = <<>> ->
                    /\ lastRtp' = "empty"
                    /\ UNCHANGED <<rtplus_tags, rtplus_flags>>
               [] ok /\ text # <<>> /\ sep = 0 ->
                    /\ lastRtp' = "no_separator"
                    /\ UNCHANGED <<rtplus_tags, rtplus_flags>>
               [] ok /\ text # <<>> /\ sep # 0 /\ ~Found(apos, tpos) ->
                    /\ lastRtp' = "not_found"
                    /\ UNCHANGED <<rtplus_tags, rtplus_flags>>
               [] ok /\ text # <<>> /\ sep # 0 /\ Found(apos, tpos) ->
                    /\ rtplus_tags' = RtpTags(artist, apos, title, tpos)
                    /\ rtplus_flags' = 3
                    /\ lastRtp' = "set"
    /\ UNCHANGED <<guiVars, engVars, pipeVars, psVars, ptyVars, packVars, optVars, rtpText, rt>>

\* Outside process_rtp_file: set_rds_rt gives the encoder a RadioText (padded
\* with spaces to RT_LENGTH), after which the RT+ file is processed again.
RtChanged(new) ==
    /\ lastRtp # "none"
    /\ rt' = new
    /\ lastRtp' = "none"
    /\ UNCHANGED <<guiVars, engVars, pipeVars, psVars, ptyVars, packVars, optVars, rtpText, rtplus_tags,
                   rtplus_flags>>

\* The RadioTexts: RT_LENGTH glyphs.
RadioTexts == [1..RtLength -> RtChars]

\* The encoder is initialised and holds a RadioText; the RT+ file holds any text.
RtpInit ==
    /\ GuiInit
    /\ box = [f \in Files |-> FALSE]
    /\ cmdFile = <<>>
    /\ PipeIdle
    /\ PsIdle
    /\ PtyIdle
    /\ PackIdle
    /\ OptIdle
    /\ rtpText \in StringsOver(RtpChars, MaxRtpFile)
    /\ rt \in RadioTexts
    /\ rtplus_tags = <<0, 0, 0, 0, 0, 0>>
    /\ rtplus_flags = 0
    /\ lastRtp = "none"

RtpNext ==
    \/ ProcessRtpFile
    \/ \E new \in RadioTexts : RtChanged(new)

SpecRtp == RtpInit /\ [][RtpNext]_vars

\* C18: every RT+ tag handed to set_rds_rtplus_tags has start + len below the
\* length of the RadioText (64 in the program).
C18_TagsWithinRadioText ==
    /\ rtplus_tags[2] + rtplus_tags[3] < RtLength
    /\ rtplus_tags[5] + rtplus_tags[6] < RtLength

\* C18 witness: artist and title were both found, and the title ends with the
\* last glyph of a RadioText that fills all its glyphs.
C18_Witness ==
    /\ lastRtp = "set"
    /\ rtplus_tags[1] = 4
    /\ rtplus_tags[4] = 1
    /\ rtplus_tags[5] > 0
    /\ rtplus_tags[5] + rtplus_tags[6] = RtLength - 1

\* s, which is not empty, occurs in r when the case of the letters is ignored.
OccursIn(s, r) ==
    /\ s # <<>>
    /\ \E i \in 1..Len(r) :
         /\ i + Len(s) - 1 <= Len(r)
         /\ \A k \in 1..Len(s) : Lower(r[i + k - 1]) = Lower(s[k])

\* The file has no "||".
NoSeparator(s) == ~\E i \in 1..(Len(s) - 1) : s[i] = "|" /\ s[i + 1] = "|"

\* The file holds nothing but white space.
IsBlank(s) == \A i \in 1..Len(s) : s[i] \in {" ", "\t", "\r", "\n"}

\* The cases in which process_rtp_file is to leave the RT+ state alone.
NothingToTag ==
    \/ IsBlank(rtpText)
    \/ NoSeparator(rtpText)
    \/ LET text == ReadFileText(rtpText)
       IN  /\ ~OccursIn(Artist(text, StrStrBars(text)), rt)
           /\ ~OccursIn(Title(text, StrStrBars(text)), rt)

\* C19: a process_rtp_file call leaves the RadioText as it is, and when the file
\* is empty, has no "||", or names neither an artist nor a title that occurs in
\* the RadioText, it leaves the RT+ tags and the RT+ flags as they are.
C19_RtpLeavesRtAndIdleTags ==
    [][(lastRtp = "none" /\ lastRtp' # "none") =>
          /\ rt' = rt
          /\ NothingToTag => (rtplus_tags' = rtplus_tags /\ rtplus_flags' = rtplus_flags)]_vars

\* C19 witness: tags were set, the RadioText changed, and the next call found
\* neither artist nor title in it and left the tags and flags set.
C19_Witness ==
    /\ lastRtp = "not_found"
    /\ rtplus_flags = 3
    /\ rtplus_tags # <<0, 0, 0, 0, 0, 0>>

-----------------------------------------------------------------------------
(* ps_chunk_text (minirds_gui.c lines 254-318) and SpecPs                   *)

\* The model's PS_LENGTH (8 in the program): the characters of a PS chunk.
PsLength == 3
\* The model's sizeof(copy) (512 in the program): copy holds one byte less.
PsCopySize == 7
\* The model's number of chunks g_ps_scroll.chunks holds (64 in the program).
PsMaxChunks == 2
\* Bytes of the text handed to ps_chunk_text.
MaxPsText == 7

\* The bytes of a PS text: letters, '-', space and tab.
PsChars == {"a", "b", "-", " ", "\t"}

\* The model's number of entries of words[] (256 in the program): half of
\* sizeof(copy), which no text of sizeof(copy) - 1 bytes exceeds.
PsMaxWords == (PsCopySize + 1) \div 2

\* A copy that is one byte shorter.
CopyOfOneLess(text) == SubSeq(text, 1, Min(Len(text), PsCopySize - 2))

\* Lines 267-268: strncpy(copy, text, sizeof(copy) - 1).
CopyOf(text) == SubSeq(text, 1, Min(Len(text), PsCopySize - 1))

\* strtok(copy, " \t") and strtok(NULL, " \t") until NULL or until words[] is
\* full (lines 275-281): the words from position p on, with n words so far.
RECURSIVE WordsFrom(_, _, _)
WordsFrom(s, p, n) ==
    LET rest == {i \in p..Len(s) : s[i] \notin {" ", "\t"}}
    IN  IF rest = {} \/ n >= PsMaxWords
        THEN <<>>
        ELSE LET b == CHOOSE i \in rest : \A j \in rest : i <= j
                 ends == {i \in b..Len(s) : s[i] \in {" ", "\t"}}
                 e == IF ends = {} THEN Len(s) + 1
                      ELSE CHOOSE i \in ends : \A j \in ends : i <= j
             IN  <<SubSeq(s, b, e - 1)>> \o WordsFrom(s, e + 1, n + 1)

\* memset(chunk, ' ', PS_LENGTH); memcpy(chunk, piece, Len(piece)).
Padded(piece) == [i \in 1..PsLength |-> IF i <= Len(piece) THEN piece[i] ELSE " "]

FitsStrictly(n) == n < PsLength
\* Lines 287 and 298: what is left fits in one chunk.
Fits(n) == n <= PsLength

\* Lines 294-311: the chunks of a word that is too long, from offset wpos on,
\* appended to the chunks acc as long as there are fewer than 64.
RECURSIVE SplitWord(_, _, _)
SplitWord(word, wpos, acc) ==
    IF ~(wpos < Len(word) /\ Len(acc) < PsMaxChunks)
    THEN acc
    ELSE IF Fits(Len(word) - wpos)
         THEN Append(acc, Padded(SubSeq(word, wpos + 1, Len(word))))
         ELSE SplitWord(word, wpos + PsLength - 1,
                        Append(acc, SubSeq(word, wpos + 1, wpos + PsLength - 1)
                                      \o <<"-">>))

\* Lines 284-313: the loop over the words, w the index of the next word and acc
\* the chunks so far.
RECURSIVE ChunkWords(_, _, _)
ChunkWords(words, w, acc) ==
    IF ~(w <= Len(words) /\ Len(acc) < PsMaxChunks)
    THEN acc
    ELSE ChunkWords(words, w + 1,
                    IF Fits(Len(words[w]))
                    THEN Append(acc, Padded(words[w]))
                    ELSE SplitWord(words[w], 0, acc))

\* ps_chunk_text, lines 254-318: the chunks it leaves in g_ps_scroll for text.
PsChunks(text) ==
    IF text = <<>>
    THEN <<>>
    ELSE ChunkWords(WordsFrom(TrimTrailingWs(CopyOf(text)), 1, 0), 1, <<>>)

\* ps_chunk_text(psText) is called.
PsChunkText ==
    /\ psPc = "none"
    /\ chunks' = PsChunks(psText)
    /\ psPc' = "done"
    /\ UNCHANGED <<guiVars, engVars, pipeVars, rtpVars, ptyVars, packVars, optVars, scrollVars, psText>>

\* Any text is about to be chunked.
PsInit ==
    /\ GuiInit
    /\ box = [f \in Files |-> FALSE]
    /\ cmdFile = <<>>
    /\ PipeIdle
    /\ RtpIdle
    /\ psText \in StringsOver(PsChars, MaxPsText)
    /\ chunks = <<>>
    /\ psPc = "none"
    /\ ScrollIdle
    /\ PtyIdle
    /\ PackIdle
    /\ OptIdle

PsNext == PsChunkText

SpecPs == PsInit /\ [][PsNext]_vars

\* The words of s: its longest runs of bytes that are neither space nor tab, in
\* order.
IsWordStart(s, i) == s[i] \notin {" ", "\t"} /\ (i = 1 \/ s[i - 1] \in {" ", "\t"})
IsWordEnd(s, i) == s[i] \notin {" ", "\t"} /\ (i = Len(s) \/ s[i + 1] \in {" ", "\t"})
WordAt(s, i) ==
    SubSeq(s, i, CHOOSE e \in i..Len(s) :
                   IsWordEnd(s, e) /\ \A j \in i..e : s[j] \notin {" ", "\t"})
RECURSIVE WordsOfFrom(_, _)
WordsOfFrom(s, i) ==
    IF i > Len(s) THEN <<>>
    ELSE IF IsWordStart(s, i) THEN <<WordAt(s, i)>> \o WordsOfFrom(s, i + 1)
         ELSE WordsOfFrom(s, i + 1)
WordsOf(s) == WordsOfFrom(s, 1)

\* The number of pieces with a '-' a word of n characters is split into.
DashPieces(n) ==
    IF n <= PsLength THEN 0
    ELSE CHOOSE k \in 1..n :
           /\ n - k * (PsLength - 1) <= PsLength
           /\ n - (k - 1) * (PsLength - 1) > PsLength

\* The chunks of one word: PsLength - 1 characters and '-' for each piece but the
\* last, and the last characters padded with spaces.
ChunksOfWord(w) ==
    LET d == DashPieces(Len(w))
    IN  [k \in 1..(d + 1) |->
           IF k <= d
           THEN SubSeq(w, (k - 1) * (PsLength - 1) + 1, k * (PsLength - 1)) \o <<"-">>
           ELSE [i \in 1..PsLength |->
                   IF (d * (PsLength - 1)) + i <= Len(w)
                   THEN w[(d * (PsLength - 1)) + i] ELSE " "]]

RECURSIVE ChunksOfWords(_)
ChunksOfWords(ws) ==
    IF ws = <<>> THEN <<>> ELSE ChunksOfWord(Head(ws)) \o ChunksOfWords(Tail(ws))

FirstOf(s, n) == SubSeq(s, 1, IF Len(s) < n THEN Len(s) ELSE n)

\* C20 (as claimed): for every text, the chunks ps_chunk_text produces are the
\* chunks of the words of the text, word after word: PsLength characters each,
\* one padded chunk for a word that fits, and for a longer word the pieces with
\* a '-' followed by the padded last piece.
C20_EveryWordChunked ==
    psPc = "done" =>
        /\ \A i \in 1..Len(chunks) : Len(chunks[i]) = PsLength
        /\ chunks = ChunksOfWords(WordsOf(psText))

\* C20 (amended): the same for the words of the first sizeof(copy) - 1 bytes of
\* the text, of whose chunks ps_chunk_text produces the first 64 only.
C20_WordsChunkedWithinLimits ==
    psPc = "done" =>
        /\ \A i \in 1..Len(chunks) : Len(chunks[i]) = PsLength
        /\ chunks = FirstOf(ChunksOfWords(WordsOf(FirstOf(psText, PsCopySize - 1))),
                            PsMaxChunks)

\* C20 witness: a word longer than a chunk was split into a piece that ends with
\* '-' and a last piece padded with a space.
C20_Witness ==
    /\ psPc = "done"
    /\ Len(chunks) = 2
    /\ chunks[1][PsLength] = "-"
    /\ chunks[2][PsLength] = " "
    /\ chunks[2][1] # " "

-----------------------------------------------------------------------------
(* ps_scroll_tick (lines 321-333), process_ps_file (lines 396-415) and      *)
(* SpecScroll: the engine thread has just been started while g_ps_scroll    *)
(* still holds the chunks of the run before.                                *)

\* The model's PS_SCROLL_INTERVAL_MS (4000 ms, eight periods of the file watch
\* timer in the program), in the units of now.
PsScrollInterval == 2
\* The time the model lets pass.
MaxNow == 5
\* Bytes of a PS file.
MaxScrollText == 3

\* What read_file_text returns for a PS file that process_ps_file goes on with:
\* a text that is not empty and does not end with white space.
ScrollTexts ==
    {s \in StringsOver({"a", "b", " "}, MaxScrollText) : s # <<>> /\ s[Len(s)] # " "}

\* GetTickCount() moves on.
ScrollTimePasses ==
    /\ now < MaxNow
    /\ now' = now + 1
    /\ UNCHANGED <<guiVars, engVars, pipeVars, rtpVars, ptyVars, packVars, optVars, psText, chunks, psPc,
                   last_advance_tick, current_chunk, ps, psHanded, advancedAt, loadPc>>

\* Line 326: the interval is over.
AdvanceDue == now - last_advance_tick >= PsScrollInterval

\* ps_scroll_tick, lines 321-333, at the end of check_file_watches in the GUI
\* thread when no watched file has changed.
PsScrollTick ==
    /\ guiPc = "idle"
    /\ IF Len(chunks) <= 1 \/ g_engine_running = 0 \/ ~AdvanceDue
       THEN UNCHANGED <<current_chunk, ps, psHanded, advancedAt, last_advance_tick>>
       ELSE /\ current_chunk' = (current_chunk + 1) % Len(chunks)
            /\ ps' = chunks[current_chunk' + 1]
            /\ psHanded' = Append(psHanded, current_chunk')
            /\ advancedAt' = Append(advancedAt, now)
            /\ last_advance_tick' = now
    /\ UNCHANGED <<guiVars, engVars, pipeVars, rtpVars, ptyVars, packVars, optVars, psText, chunks, psPc, now,
                   loadPc>>

\* check_file_watches, lines 562-569, in the GUI thread: the PS file has changed
\* and the engine runs, so process_ps_file loads it (ps_chunk_text, then
\* set_rds_ps with chunk 0), and ps_scroll_tick at the end of the handler finds
\* the interval not over. The model takes this step only when the engine thread
\* is through with its own process_ps_file call.
WatchPsFile ==
    /\ guiPc = "idle"
    /\ g_engine_running # 0
    /\ loadPc = "done"
    /\ \E text \in ScrollTexts :
         /\ psText' = text
         /\ chunks' = PsChunks(text)
         /\ current_chunk' = 0
         /\ last_advance_tick' = now
         /\ IF PsChunks(text) # <<>>
            THEN /\ ps' = PsChunks(text)[1]
                 /\ psHanded' = <<0>>
            ELSE /\ ps' = ps
                 /\ psHanded' = <<>>
         /\ advancedAt' = <<>>
    /\ UNCHANGED <<guiVars, engVars, pipeVars, rtpVars, ptyVars, packVars, optVars, psPc, now, loadPc>>

\* engine_thread_proc, lines 786-789: process_ps_file in the engine thread, up to
\* line 316 of ps_chunk_text (num_chunks and current_chunk are written).
EngPsChunk(t) ==
    /\ pc[t] = "rds_init"
    /\ loadPc = "before"
    /\ loadPc' = "chunked"
    /\ chunks' = PsChunks(psText)
    /\ current_chunk' = 0
    /\ psHanded' = <<>>
    /\ advancedAt' = <<>>
    /\ UNCHANGED <<guiVars, engVars, pipeVars, rtpVars, ptyVars, packVars, optVars, psText, psPc, now,
                   last_advance_tick, ps>>

\* Line 317 of ps_chunk_text, in the engine thread.
EngPsStamp(t) ==
    /\ pc[t] = "rds_init"
    /\ loadPc = "chunked"
    /\ loadPc' = "stamped"
    /\ last_advance_tick' = now
    /\ UNCHANGED <<guiVars, engVars, pipeVars, rtpVars, ptyVars, packVars, optVars, psText, chunks, psPc, now,
                   current_chunk, ps, psHanded, advancedAt>>

\* Lines 405-412 of process_ps_file, in the engine thread: set_rds_ps with chunk 0.
EngPsSet(t) ==
    /\ pc[t] = "rds_init"
    /\ loadPc = "stamped"
    /\ loadPc' = "done"
    /\ IF chunks # <<>>
       THEN /\ ps' = chunks[1]
            /\ psHanded' = Append(psHanded, 0)
       ELSE UNCHANGED <<ps, psHanded>>
    /\ UNCHANGED <<guiVars, engVars, pipeVars, rtpVars, ptyVars, packVars, optVars, psText, chunks, psPc, now,
                   last_advance_tick, current_chunk, advancedAt>>

\* start_engine has returned and the engine thread is about to process the
\* watched PS file; g_ps_scroll is what an earlier run left, its last advance at
\* time 0.
ScrollInit ==
    /\ g_engine_running = 1
    /\ g_stop_engine = 0
    /\ g_engine_thread = 1
    /\ box = [f \in Files |-> f \in CapturedAtStart]
    /\ active = box
    /\ changed = [f \in Files |-> TRUE]
    /\ applied = [f \in Files |-> FALSE]
    /\ edited = {}
    /\ startEnabled = FALSE
    /\ stopEnabled = TRUE
    /\ status = "Running"
    /\ posted = 0
    /\ guiPc = "idle"
    /\ fp = <<>>
    /\ execHanded = <<>>
    /\ count = 0
    /\ pc = [t \in Threads |-> IF t = 1 THEN "rds_init" ELSE "unborn"]
    /\ trace = [t \in Threads |-> IF t = 1 THEN <<"fm_mpx_init">> ELSE <<>>]
    /\ sawStop = [t \in Threads |-> FALSE]
    /\ playsAfterStop = [t \in Threads |-> 0]
    /\ playsAfterSeen = [t \in Threads |-> 0]
    /\ playFailed = [t \in Threads |-> FALSE]
    /\ playsAfterFail = [t \in Threads |-> 0]
    /\ PipeIdle
    /\ RtpIdle
    /\ PtyIdle
    /\ PackIdle
    /\ OptIdle
    /\ cmdFile = <<>>
    /\ psPc = "none"
    /\ psText \in ScrollTexts
    /\ \E prev \in ScrollTexts \cup {<<>>} : chunks = PsChunks(prev)
    /\ current_chunk \in 0..(IF chunks = <<>> THEN 0 ELSE Len(chunks) - 1)
    /\ now = 0
    /\ last_advance_tick = 0
    /\ ps = <<>>
    /\ psHanded = <<>>
    /\ advancedAt = <<>>
    /\ loadPc = "before"

ScrollNext ==
    \/ ScrollTimePasses
    \/ PsScrollTick
    \/ WatchPsFile
    \/ \E t \in Threads : EngPsChunk(t) \/ EngPsStamp(t) \/ EngPsSet(t)

SpecScroll == ScrollInit /\ [][ScrollNext]_vars

\* C21: since the load of a PS file began, set_rds_ps got chunk 0 and then the
\* chunks 1, 2, ..., n - 1, 0, 1, ... in this order, no two advances are less
\* than the scroll interval apart, and with one chunk the PS was set once only.
C21_ChunksInCyclicOrder ==
    loadPc # "before" =>
        /\ \A i \in 1..Len(psHanded) :
             chunks # <<>> /\ psHanded[i] = (i - 1) % Len(chunks)
        /\ \A i \in 1..(Len(advancedAt) - 1) :
             advancedAt[i + 1] - advancedAt[i] >= PsScrollInterval
        /\ Len(chunks) = 1 => Len(psHanded) <= 1

-----------------------------------------------------------------------------
(* The Programme Type: process_pt_file (lines 529-544), apply_settings      *)
(* (lines 1004-1009) and SpecPty                                            *)

\* The largest Programme Type: pty is a 5-bit code (spec.md, Program
\* Information Store).
MaxPty == 31

\* The numbers a PT file or the PTY field holds in the model.
PtyInputs == {0, 10, 31, 32, 200, 255, 256, 266, 300}

\* (uint8_t)strtoul(text, NULL, 10) for a text that is the decimal number n.
Uint8(n) == n % 256

\* set_rds_pty (rds.c, not in src/): a value out of range is rejected and the
\* value before is kept (spec.md, Bounds/validation).
SetRdsPty(prev, v) == IF v <= MaxPty THEN v ELSE prev

\* process_pt_file, lines 529-544, for a file that begins with a digit.
PtFileNumber(n) ==
    /\ ptyGiven' = n
    /\ ptyFrom' = "pt_file"
    /\ pty' = SetRdsPty(pty, Uint8(n))
    /\ UNCHANGED <<guiVars, engVars, pipeVars, rtpVars, psVars, packVars, optVars>>

\* process_pt_file, lines 535-536, for a file that begins with a letter:
\* get_pty_code (rds.c, not in src/) yields the code of a Programme Type name.
PtFileName ==
    /\ \E code \in 0..MaxPty :
         /\ ptyGiven' = code
         /\ pty' = SetRdsPty(pty, code)
    /\ ptyFrom' = "pt_name"
    /\ UNCHANGED <<guiVars, engVars, pipeVars, rtpVars, psVars, packVars, optVars>>

\* apply_settings, lines 1004-1009: the PTY field holds the number n.
ApplyPty(n) ==
    /\ ptyGiven' = n
    /\ ptyFrom' = "apply"
    /\ pty' = SetRdsPty(pty, Uint8(n))
    /\ UNCHANGED <<guiVars, engVars, pipeVars, rtpVars, psVars, packVars, optVars>>

PtyInit ==
    /\ GuiAtRest
    /\ PipeIdle

PtyNext ==
    \/ \E n \in PtyInputs : PtFileNumber(n)
    \/ PtFileName
    \/ \E n \in PtyInputs : ApplyPty(n)

SpecPty == PtyInit /\ [][PtyNext]_vars

\* C22: a set_rds_pty call for a number outside 0..31 in the PT file or in the
\* PTY field leaves the PTY as it was, and the PTY in effect is never above 31.
C22_OutOfRangePtyRejected ==
    [][/\ pty' <= MaxPty
       /\ ptyGiven' \notin 0..MaxPty => pty' = pty]_vars

-----------------------------------------------------------------------------
(* float2char2channel (lines 226-244) and SpecPack                          *)

\* The model's number of values of the uint16_t indices i, j and k (65536 in the
\* program).
IndexRange == 16
\* The largest frames argument of the model.
MaxFrames == 5

\* The frames of inbuf in the model: the two floats of a frame, in units of
\* 1/32767 (32767 is 1.0, 49151 is about 1.5).
FramePairs == {<<0, 0>>, <<1, 2>>, <<-300, -300>>, <<32767, 32767>>,
               <<49151, 49151>>, <<-49151, -49151>>}

\* lroundf(x) for x = v / 2: to the nearest integer, halves away from zero.
LRoundHalf(v) == IF v >= 0 THEN (v + 1) \div 2 ELSE -((1 - v) \div 2)

\* The conversion of a long to int16_t (line 233): the low 16 bits, two's
\* complement.
ToInt16(x) == ((x + 32768) % 65536) - 32768

\* Line 233: sample = lroundf((inbuf[j] + inbuf[j+1]) * 16383.5f), for the floats
\* a / 32767 and b / 32767.
Sample(a, b) == ToInt16(LRoundHalf(a + b))

\* Line 234: sample & 255, as the byte stored.
LowerByte(sample) == sample % 256
\* Lines 235-236: sample >>= 8; sample & 255, as the byte stored.
UpperByte(sample) == (sample \div 256) % 256

\* Lines 232-243: the loop from frame i on, j and k being the uint16_t indices
\* into inbuf and outbuf.
RECURSIVE PackFrom(_, _, _, _, _, _)
PackFrom(inb, out, n, i, j, k) ==
    IF ~(i < n)
    THEN out
    ELSE LET sample == Sample(inb[j + 1], inb[j + 2])
             written == [o \in DOMAIN out |->
                           IF o = k + 1 \/ o = k + 3 THEN LowerByte(sample)
                           ELSE IF o = k + 2 \/ o = k + 4 THEN UpperByte(sample)
                           ELSE out[o]]
         IN  PackFrom(inb, written, n, i + 1, (j + 2) % IndexRange,
                      (k + 4) % IndexRange)

\* float2char2channel(inbuf, outbuf, frames), lines 226-244.
Float2Char2Channel ==
    /\ packPc = "none"
    /\ outbuf' = PackFrom(inbuf2, outbuf, frames, 0, 0, 0)
    /\ packPc' = "done"
    /\ UNCHANGED <<guiVars, engVars, pipeVars, rtpVars, psVars, ptyVars, optVars,
                   frames, inbuf2>>

\* inbuf holds frames frames and outbuf has room for them.
PackInit ==
    /\ GuiInit
    /\ box = [f \in Files |-> FALSE]
    /\ cmdFile = <<>>
    /\ PipeIdle
    /\ RtpIdle
    /\ PsIdle
    /\ PtyIdle
    /\ OptIdle
    /\ frames \in 0..MaxFrames
    /\ \E fr \in [1..frames -> FramePairs] :
         inbuf2 = [x \in 1..(2 * frames) |-> fr[(x + 1) \div 2][2 - (x % 2)]]
    /\ outbuf = [o \in 1..(4 * frames) |-> -1]
    /\ packPc = "none"

PackNext == Float2Char2Channel

SpecPack == PackInit /\ [][PackNext]_vars

\* The 16-bit sample of frame i (from 0), as line 233 computes it.
SampleOf(i) == Sample(inbuf2[(2 * i) + 1], inbuf2[(2 * i) + 2])

Int16Of(lo, hi) == ToInt16(lo + (256 * hi))

\* round(f * 32767) with saturation, for the MPX value f = v / (2 * 32767).
Saturated(v) ==
    IF v > 2 * 32767 THEN 32767
    ELSE IF v < -(2 * 32767) THEN -32767
    ELSE LRoundHalf(v)

\* C24: the sample packed for the first frame is round(f * 32767) for the MPX
\* value f of the frame and the extreme sample of the sign of f when f is
\* beyond +1.0 or -1.0.
C24_SaturatedSample ==
    (packPc = "done" /\ frames > 0) =>
        LET s == Int16Of(outbuf[1], outbuf[2])
            v == inbuf2[1] + inbuf2[2]
        IN  \/ s = Saturated(v)
            \/ v < -(2 * 32767) /\ s = -32768

-----------------------------------------------------------------------------
(* getopt.c: getopt (lines 25-104), getopt_long (lines 106-176), SpecGetopt *)

\* The arguments after argv[0] on the command line of the model.
MaxArgs == 3

\* The argv elements of a caller of getopt.
ShortElems ==
    { <<>>, <<"-">>, <<"-", "-">>, <<"x">>, <<"-", "a">>, <<"-", "b">>,
      <<"-", "a", "b">>, <<"-", "b", "x">>, <<"-", "c">>, <<"-", "d">>,
      <<"-", ":">>, <<"-", "a", "d", "a">>, <<"-", "d", "c">> }

\* The argv elements of a caller of getopt_long.
LongElems ==
    { <<"-">>, <<"-", "-">>, <<"x">>, <<"-", "a">>, <<"-", "b">>,
      <<"-", "-", "n">>, <<"-", "-", "n", "n">>, <<"-", "-", "n", "n", "=", "x">>,
      <<"-", "-", "m">>, <<"-", "-", "m", "=">>, <<"-", "-", "q">>,
      <<"-", "-", "o">>, <<"-", "-", "n", "=", "x">> }

\* The optstrings of the callers: b takes an argument, c an optional one.
Optstrings ==
    { <<"a", "b", ":">>, <<":", "a", "b", ":">>, <<"a", "d", "c", ":", ":">> }

\* The longopts array of the callers, up to the entry whose name is NULL.
longopts ==
    << [name |-> <<"n", "n">>, has_arg |-> 1, flag |-> TRUE, val |-> "1"],
       [name |-> <<"n">>, has_arg |-> 0, flag |-> FALSE, val |-> "n"],
       [name |-> <<"m">>, has_arg |-> 1, flag |-> FALSE, val |-> "m"],
       [name |-> <<"o">>, has_arg |-> 2, flag |-> FALSE, val |-> "o"] >>

argc == Len(argv)

\* argv[i] with the indices of C.
Arg(i) == argv[i + 1]

\* strchr(s, ch) for a character ch that is not '\0': its index in s (from 1),
\* 0 for NULL.
StrChr(s, ch) ==
    IF \E i \in 1..Len(s) : s[i] = ch
    THEN CHOOSE i \in 1..Len(s) : s[i] = ch /\ \A j \in 1..(i - 1) : s[j] # ch
    ELSE 0

\* Line 36: argv[optind][0] != '-' || argv[optind][1] == '\0'.
NotAnOption(e) == e = <<>> \/ e[1] # "-" \/ Len(e) = 1

DashDashStays(oi) == oi
\* Lines 42 and 124: optind++ for "--".
DashDash(oi) == oi + 1

\* The state of getopt.c after a call that returns r.
Returning(oi, ow, oa, oo, r) ==
    [optind |-> oi, optwhere |-> ow, optarg |-> oa, optopt |-> oo, result |-> r,
     longindex |-> longindex, flagged |-> flagged]

\* On to the next element after any character.
NextCharacterLeavesElement(oi, ow, e) == [optind |-> oi + 1, optwhere |-> 1]

\* Lines 56-61 and 95-100: on to the next character of the element, or to the
\* next element after its last character.
NextCharacter(oi, ow, e) ==
    IF Len(e) = ow + 1
    THEN [optind |-> oi + 1, optwhere |-> 1]
    ELSE [optind |-> oi, optwhere |-> ow + 1]

OptionalArgumentAlways(os, pos) == TRUE
\* Line 73: found[2] == ':'.
OptionalArgument(os, pos) == pos + 2 <= Len(os) /\ os[pos + 2] = ":"

\* getopt, lines 25-104.
GetoptResult ==
    IF optind >= argc
    THEN Returning(optind, optwhere, <<>>, optopt, "-1")
    ELSE IF NotAnOption(Arg(optind))
    THEN Returning(optind, optwhere, <<>>, optopt, "-1")
    ELSE IF Arg(optind) = <<"-", "-">>
    THEN Returning(DashDash(optind), optwhere, <<>>, optopt, "-1")
    ELSE
      LET e == Arg(optind)
          ch == e[optwhere + 1]
          pos == StrChr(optstring, ch)
          next == NextCharacter(optind, optwhere, e)
      IN  IF pos = 0 \/ ch = ":"
          THEN Returning(next.optind, next.optwhere, <<>>, ch, "?")
          ELSE IF pos + 1 <= Len(optstring) /\ optstring[pos + 1] = ":"
          THEN IF Len(e) > optwhere + 1
               THEN Returning(optind + 1, 1, <<SubSeq(e, optwhere + 2, Len(e))>>,
                              optopt, ch)
               ELSE IF OptionalArgument(optstring, pos)
               THEN Returning(optind + 1, 1, <<>>, optopt, ch)
               ELSE IF optind + 1 >= argc
               THEN Returning(optind + 1, 1, <<>>, ch,
                              IF optstring[1] = ":" THEN ":" ELSE "?")
               ELSE Returning(optind + 2, 1, <<Arg(optind + 1)>>, optopt, ch)
          ELSE Returning(next.optind, next.optwhere, <<>>, optopt, ch)

\* Lines 129-130: the length of the name in arg, which ends at the first '='.
NameLen(arg) == IF StrChr(arg, "=") = 0 THEN Len(arg) ELSE StrChr(arg, "=") - 1

MatchesPrefix(arg, len, i) ==
    /\ Len(longopts[i].name) >= len
    /\ SubSeq(longopts[i].name, 1, len) = SubSeq(arg, 1, len)
\* Lines 133-134: strncmp(arg, longopts[i].name, len) == 0 and
\* strlen(longopts[i].name) == len.
Matches(arg, len, i) ==
    /\ Len(longopts[i].name) = len
    /\ SubSeq(longopts[i].name, 1, len) = SubSeq(arg, 1, len)

\* Lines 136-161: the entry i matches.
LongFound(arg, i) ==
    LET eq == StrChr(arg, "=")
        o == longopts[i]
        taken == IF o.has_arg \in {1, 2}
                 THEN IF eq # 0 THEN "eq"
                      ELSE IF o.has_arg = 1
                           THEN IF optind + 1 >= argc THEN "missing" ELSE "next"
                           ELSE "none"
                 ELSE "none"
        oa == CASE taken = "eq" -> <<SubSeq(arg, eq + 1, Len(arg))>>
                [] taken = "next" -> <<Arg(optind + 1)>>
                [] OTHER -> <<>>
        oi == IF taken = "next" THEN optind + 2 ELSE optind + 1
    IN  [optind |-> oi, optwhere |-> optwhere, optarg |-> oa, optopt |-> optopt,
         result |-> IF taken = "missing" THEN "?"
                    ELSE IF o.flag THEN "0" ELSE o.val,
         longindex |-> i - 1,
         flagged |-> IF taken # "missing" /\ o.flag THEN <<o.val>> ELSE flagged]

\* getopt_long, lines 106-176.
GetoptLongResult ==
    IF optind >= argc
    THEN Returning(optind, optwhere, <<>>, optopt, "-1")
    ELSE IF Len(Arg(optind)) >= 2 /\ Arg(optind)[1] = "-" /\ Arg(optind)[2] = "-"
    THEN LET arg == SubSeq(Arg(optind), 3, Len(Arg(optind)))
             len == NameLen(arg)
             hits == {i \in 1..Len(longopts) : Matches(arg, len, i)}
         IN  IF arg = <<>>
             THEN Returning(DashDash(optind), optwhere, <<>>, optopt, "-1")
             ELSE IF hits # {}
             THEN LongFound(arg, CHOOSE i \in hits : \A j \in hits : i <= j)
             ELSE Returning(optind + 1, optwhere, <<>>, optopt, "?")
    ELSE GetoptResult

\* One call of getopt or getopt_long by a caller that stops at -1.
Call ==
    /\ result # "-1"
    /\ LET r == IF useLong THEN GetoptLongResult ELSE GetoptResult
       IN  /\ optind' = r.optind
           /\ optwhere' = r.optwhere
           /\ optarg' = r.optarg
           /\ optopt' = r.optopt
           /\ result' = r.result
           /\ longindex' = r.longindex
           /\ flagged' = r.flagged
    /\ UNCHANGED <<guiVars, engVars, pipeVars, rtpVars, psVars, ptyVars, packVars,
                   argv, optstring, useLong>>

\* main is entered: argv[0] is the program, optind is 1.
GetoptInit ==
    /\ GuiInit
    /\ box = [f \in Files |-> FALSE]
    /\ cmdFile = <<>>
    /\ PipeIdle
    /\ RtpIdle
    /\ PsIdle
    /\ PtyIdle
    /\ PackIdle
    /\ useLong \in BOOLEAN
    /\ \E n \in 0..MaxArgs :
         \E a \in [1..n -> IF useLong THEN LongElems ELSE ShortElems] :
            argv = <<<<"p">>>> \o a
    /\ optstring \in Optstrings
    /\ optind = 1
    /\ optwhere = 1
    /\ optarg = <<>>
    /\ optopt = "?"
    /\ result = "none"
    /\ longindex = -1
    /\ flagged = <<>>

GetoptNext == Call

SpecGetopt == GetoptInit /\ [][GetoptNext]_vars


\* The element getopt looks at.
Cur == Arg(optind)

\* An argv element that is no option: it does not begin with '-', or it is "-".
IsOperand(e) == e = <<>> \/ Head(e) # "-" \/ e = <<"-">>

\* C25: getopt and getopt_long return -1 and leave optind alone at the end of
\* argv and at an element that is no option; they return -1 with optind one
\* further at "--"; and when -1 is returned optind is at the first operand: at
\* the end of argv, at an element that is no option, or right after "--".
C25_ScanEndsAsPosix ==
    [][/\ (optind >= argc \/ IsOperand(Cur)) => (result' = "-1" /\ optind' = optind)
       /\ (optind < argc /\ Cur = <<"-", "-">>) =>
              (result' = "-1" /\ optind' = optind + 1)
       /\ result' = "-1" =>
              \/ optind' >= argc
              \/ optind' = optind /\ IsOperand(Arg(optind'))
              \/ optind' = optind + 1 /\ Cur = <<"-", "-">>]_vars

\* C25 witness: after an option, "--" ended the scan and optind is at the operand
\* behind it.
C25_Witness ==
    /\ result = "-1"
    /\ argc = 4
    /\ optind = 3
    /\ Arg(1) = <<"-", "a">>
    /\ Arg(2) = <<"-", "-">>

\* The call looks at a character of an option element (not at a long option).
ShortCall ==
    /\ optind < argc
    /\ ~IsOperand(Cur)
    /\ Cur # <<"-", "-">>
    /\ ~(useLong /\ Cur[2] = "-")

\* The option character the call looks at and what follows it in the element.
OptChar == Cur[optwhere + 1]
Rest == SubSeq(Cur, optwhere + 2, Len(Cur))

\* ch is an option character of optstring; it is declared with ':'; with "::".
Declared(ch) == ch # ":" /\ \E i \in 1..Len(optstring) : optstring[i] = ch
WithColon(ch) ==
    \E i \in 1..(Len(optstring) - 1) : optstring[i] = ch /\ optstring[i + 1] = ":"
WithTwoColons(ch) ==
    \E i \in 1..(Len(optstring) - 2) :
        optstring[i] = ch /\ optstring[i + 1] = ":" /\ optstring[i + 2] = ":"

\* What the claim says of an option character that takes an argument.
ArgumentTaken ==
    IF Rest # <<>>
    THEN optarg' = <<Rest>> /\ optind' = optind + 1 /\ result' = OptChar
    ELSE IF optind + 1 < argc
    THEN optarg' = <<Arg(optind + 1)>> /\ optind' = optind + 2 /\ result' = OptChar
    ELSE /\ result' = (IF optstring[1] = ":" THEN ":" ELSE "?")
         /\ optopt' = OptChar

LongCall ==
    /\ useLong
    /\ optind < argc
    /\ Len(Cur) > 2
    /\ Cur[1] = "-"
    /\ Cur[2] = "-"

\* The name and the value of "--name" or "--name=value".
LongArg == SubSeq(Cur, 3, Len(Cur))
HasValue == \E i \in 1..Len(LongArg) : LongArg[i] = "="
LongName ==
    LET n == CHOOSE n \in 0..Len(LongArg) :
                 /\ \A j \in 1..n : LongArg[j] # "="
                 /\ n = Len(LongArg) \/ LongArg[n + 1] = "="
    IN  SubSeq(LongArg, 1, n)
LongValue == SubSeq(LongArg, Len(LongName) + 2, Len(LongArg))

\* The entry i is returned: through its flag, or as its val.
ReturnsEntry(i) ==
    IF longopts[i].flag
    THEN result' = "0" /\ flagged' = <<longopts[i].val>>
    ELSE result' = longopts[i].val

\* C27: getopt_long takes the entry whose name is the name of the element,
\* stores its index, returns its val or 0 with val stored through flag, takes a
\* required argument from "=value" or from the next element, returns '?' for
\* an unknown name or a missing required argument, and leaves optind behind all
\* that it consumed.
C27_LongOptionExactMatch ==
    [][LongCall =>
         LET named == {i \in 1..Len(longopts) : longopts[i].name = LongName}
         IN  IF named = {}
             THEN result' = "?" /\ optind' = optind + 1
             ELSE \E i \in named :
                    /\ longindex' = i - 1
                    /\ IF longopts[i].has_arg # 1
                       THEN optind' = optind + 1 /\ ReturnsEntry(i)
                       ELSE IF HasValue
                       THEN /\ optarg' = <<LongValue>>
                            /\ optind' = optind + 1
                            /\ ReturnsEntry(i)
                       ELSE IF optind + 1 < argc
                       THEN /\ optarg' = <<Arg(optind + 1)>>
                            /\ optind' = optind + 2
                            /\ ReturnsEntry(i)
                       ELSE result' = "?" /\ optind' = optind + 1]_vars

\* C27 witness: "--nn=x" stored the val of entry 0 through its flag and x is
\* optarg.
C27_Witness ==
    /\ result = "0"
    /\ flagged = <<"1">>
    /\ longindex = 0
    /\ optarg = <<<<"x">>>>
    /\ optind = 2

-----------------------------------------------------------------------------
(* The exit paths of engine_thread_proc                                     *)

\* The calls that acquire something, each with the call that releases it.
AcquireRelease ==
    { <<"ao_open_live", "ao_close">>, <<"resampler_init", "resampler_exit">>,
      <<"init_rds_encoder", "exit_rds_encoder">>, <<"fm_mpx_init", "fm_mpx_exit">>,
      <<"ao_initialize", "ao_shutdown">> }

\* How often thread t has called c.
Calls(t, c) == Cardinality({i \in 1..Len(trace[t]) : trace[t][i] = c})

\* C29: when an engine thread has set g_engine_running to 0, it has released
\* once each thing it acquired and nothing else: every releasing call was made
\* as often as its acquiring call, at most once, and after it.
C29_AcquiredIsReleasedOnce ==
    \A t \in Threads :
      Signalled(t) =>
        \A p \in AcquireRelease :
          /\ Calls(t, p[1]) = Calls(t, p[2])
          /\ Calls(t, p[1]) <= 1
          /\ Calls(t, p[1]) = 1 => Precedes(t, p[1], p[2])


\* A step of engine thread t.
EngStep(t) ==
    \/ EngAlloc(t)
    \/ EngRdsInit(t)
    \/ EngAudioSetup(t)
    \/ EngLoopCheck(t)
    \/ EngGetFrames(t)
    \/ EngAoPlay(t)
    \/ EngTeardown(t)
    \/ EngCleanup(t)
    \/ EngExit(t)
    \/ EngPost(t)

\* A handler of the GUI thread that is under way returns.
GuiReturns == ApplyEnd \/ StopWaitReturns

\* No file is watched and the command file is empty.
LiveInit == GuiAtRest /\ PipeIdle

\* The engine threads and the Start, Stop and Apply Settings buttons.
LiveNext ==
    \/ StartEngine
    \/ StopEngine
    \/ StopWaitReturns
    \/ EngineStoppedMsg
    \/ ApplyBegin
    \/ ApplyEnd
    \/ \E t \in Threads : EngStep(t)

\* The scheduling of the program: every engine thread gets to run and the
\* library calls it makes return, the handlers of the GUI thread return, and the
\* message loop gets to a WM_APP + 1 message that is in the queue.
SpecLive ==
    /\ LiveInit
    /\ [][LiveNext]_vars
    /\ \A t \in Threads : WF_vars(EngStep(t))
    /\ WF_vars(GuiReturns)
    /\ SF_vars(EngineStoppedMsg)

\* Behind the loop or behind a failed set-up step, before g_engine_running is
\* cleared.
Leaving == {"teardown", "engine_cleanup", "engine_exit"}

\* C28: an engine thread that is on its way out, by whatever path, gets to the
\* end (g_engine_running set to 0 and WM_APP + 1 posted), and the window then
\* shows "Stopped" with Start enabled and Stop disabled.
C28_EveryPathEndsStopped ==
    \A t \in Threads :
      (pc[t] \in Leaving) ~>
        (pc[t] = "done" /\ status = "Stopped" /\ startEnabled /\ ~stopEnabled)

\* C28 witness: a thread has ended without any stop request and the window has
\* handled its WM_APP + 1.
C28_Witness ==
    \E t \in Threads :
      /\ pc[t] = "done"
      /\ g_stop_engine = 0
      /\ posted = 0
      /\ status = "Stopped"
      /\ startEnabled
      /\ ~stopEnabled

\* From the start of engine_thread_proc to the end of its loop.
InEngine == {"start", "rds_init", "audio_setup", "loop_check", "get_frames", "ao_play"}

\* C30: an engine thread that runs while g_stop_engine is 1 leaves its loop and
\* sets g_engine_running to 0, and g_stop_engine is never reset while a thread
\* is still before the end of its loop.
C30_StopRequestNotLost ==
    /\ \A t \in Threads :
         (g_stop_engine = 1 /\ pc[t] \in InEngine) ~>
             (pc[t] = "post" /\ g_engine_running = 0)
    /\ [][(g_stop_engine = 1 /\ g_stop_engine' = 0) =>
              \A t \in Threads : pc[t] \notin InEngine]_vars

\* C30 witness: stop_engine gave up waiting, and the thread then saw the flag,
\* left its loop and set g_engine_running to 0.
C30_Witness ==
    \E t \in Threads :
      /\ pc[t] = "post"
      /\ sawStop[t]
      /\ g_stop_engine = 1
      /\ g_engine_running = 0
      /\ g_engine_thread = NULL
      /\ startEnabled

-----------------------------------------------------------------------------
(* poll_control_pipe and the lines of the byte stream (SpecPipe)            *)

\* Bytes a..b of payload are one complete line of the stream: the text between
\* two consecutive line feeds, or between the start of the stream and its first
\* line feed. The stream goes on behind payload with the bytes not yet read, and
\* the end of what has been written so far is taken as the end of a line.
IsCompleteLine(a, b) ==
    /\ \A k \in a..b : payload[k] # "\n"
    /\ IF a = 1 THEN before = "\n" ELSE payload[a - 1] = "\n"
    /\ IF b = Len(payload)
       THEN inbuf = <<>> \/ inbuf[1] = "\n"
       ELSE payload[b + 1] = "\n"

\* C31 (as claimed): every string a poll hands to process_ascii_cmd is one
\* complete line of the byte stream written to the pipe, whatever its length and
\* however the reads cut the stream.
C31_HandsCompleteLines ==
    (Returned /\ lastRead = "data") =>
        \A i \in 1..Len(handed) :
            \E a \in 1..Len(payload) : \E b \in a..Len(payload) :
                /\ handed[i] = SubSeq(payload, a, b)
                /\ IsCompleteLine(a, b)

-----------------------------------------------------------------------------
(* getopt on grouped option characters (SpecGetopt)                         *)

\* ch is an option character of optstring that takes no argument.
NoArgument(ch) == Declared(ch) /\ ~WithColon(ch)

\* Element e is '-' and, up to index n, option characters that take no argument.
NoArgumentUpTo(e, n) == \A k \in 2..n : NoArgument(e[k])

\* The call looks at the last character of its element.
AtLastChar == optwhere + 1 = Len(Cur)

\* C32: getopt scans an element from its first character on (optwhere is 1
\* whenever optind has moved, and stays inside the element); on an element made
\* only of option characters without argument each call returns the character
\* at optwhere and moves one character on, and optind moves, by one, only with
\* the last character; a last character that takes an argument, behind
\* characters that take none, gets the next argv element as optarg.
C32_GroupedOptions ==
    [][/\ optind' # optind => optwhere' = 1
       /\ ShortCall => optwhere + 1 <= Len(Cur)
       /\ (ShortCall /\ NoArgumentUpTo(Cur, Len(Cur))) =>
              /\ result' = OptChar
              /\ IF AtLastChar
                 THEN optind' = optind + 1 /\ optwhere' = 1
                 ELSE optind' = optind /\ optwhere' = optwhere + 1
       /\ (/\ ShortCall
           /\ Len(Cur) >= 3
           /\ NoArgumentUpTo(Cur, Len(Cur) - 1)
           /\ AtLastChar
           /\ WithColon(OptChar)
           /\ ~WithTwoColons(OptChar)
           /\ optind + 1 < argc) =>
              /\ result' = OptChar
              /\ optarg' = <<Arg(optind + 1)>>
              /\ optind' = optind + 2
              /\ optwhere' = 1]_vars

\* C32 witness: of "-ada" the second character has been returned and optind
\* still is at the element.
C32_Witness ==
    /\ ~useLong
    /\ argc >= 2
    /\ Arg(1) = <<"-", "a", "d", "a">>
    /\ NoArgumentUpTo(Arg(1), 4)
    /\ optind = 1
    /\ optwhere = 3
    /\ result = "d"

-----------------------------------------------------------------------------
(* The text read back from the PS chunks (SpecPs)                           *)

\* A chunk without its trailing pad spaces.
RECURSIVE WithoutPad(_)
WithoutPad(c) ==
    IF c # <<>> /\ c[Len(c)] = " " THEN WithoutPad(SubSeq(c, 1, Len(c) - 1)) ELSE c

\* For each chunk of the words ws, whether it is a split piece: a piece of a
\* word that goes on in the next chunk, with a '-' added in its last position.
RECURSIVE SplitPieces(_)
SplitPieces(ws) ==
    IF ws = <<>> THEN <<>>
    ELSE [k \in 1..(DashPieces(Len(Head(ws))) + 1) |-> k <= DashPieces(Len(Head(ws)))]
         \o SplitPieces(Tail(ws))

\* The text read back from chunks cs, of which split says which are split
\* pieces: a split piece loses its last position and is joined to the chunk
\* behind it, any other chunk loses its pad spaces and ends a word, and the
\* words are separated by one space. open says that cs follows a split piece.
RECURSIVE ReadBack(_, _, _)
ReadBack(cs, split, open) ==
    IF cs = <<>> \/ split = <<>> THEN <<>>
    ELSE LET c == Head(cs)
             sep == IF open THEN <<>> ELSE <<" ">>
         IN  IF Head(split)
             THEN sep \o SubSeq(c, 1, Len(c) - 1)
                      \o ReadBack(Tail(cs), Tail(split), TRUE)
             ELSE sep \o WithoutPad(c) \o ReadBack(Tail(cs), Tail(split), FALSE)

\* The text is within the limits of ps_chunk_text: it fits copy and its words
\* need no more chunks than g_ps_scroll holds.
WithinLimits(text) ==
    /\ Len(text) <= PsCopySize - 1
    /\ Len(ChunksOfWords(WordsOf(text))) <= PsMaxChunks

\* C33: for a text within the limits there is one chunk for each piece of its
\* words, every split piece ends with '-', and the chunks read back (the pad
\* spaces and the '-' of the split pieces removed, the words joined with one
\* space) give the words of the text in their order.
C33_ChunksGiveBackWords ==
    (psPc = "done" /\ WithinLimits(psText)) =>
        LET split == SplitPieces(WordsOf(psText))
        IN  /\ Len(chunks) = Len(split)
            /\ \A i \in 1..Len(chunks) : split[i] => chunks[i][PsLength] = "-"
            /\ WordsOf(ReadBack(chunks, split, FALSE)) = WordsOf(psText)

\* C33 witness: a word with a '-' of its own was split, and the chunks read back
\* give the word.
C33_Witness ==
    /\ psPc = "done"
    /\ WithinLimits(psText)
    /\ WordsOf(psText) = << <<"a", "-", "b", "a">> >>
    /\ chunks = << <<"a", "-", "-">>, <<"b", "a", " ">> >>
    /\ ReadBack(chunks, <<TRUE, FALSE>>, FALSE) = <<" ", "a", "-", "b", "a">>

====
